---------------------------- MODULE Spec2Model ----------------------------
(***************************************************************************)
(* Product-Importer: the asynchronous CSV import pipeline.                 *)
(*                                                                         *)
(*   backend/app/services/csv_processor.py   CSV batch reader              *)
(*   backend/app/tasks.py                    import orchestrator           *)
(*   backend/app/models.py                   Product / ImportJob           *)
(*   backend/app/api/products.py             product CRUD                  *)
(*   backend/app/api/upload.py               job submission                *)
(*                                                                         *)
(* Text is modelled as a sequence of one-character strings, so that        *)
(* str.strip() and str.lower() are computed, not assumed.                  *)
(***************************************************************************)
EXTENDS Integers, Sequences, FiniteSets, TLC

(***************************************************************************)
(* Bounds of the model.                                                    *)
(***************************************************************************)
\* rows of an uploaded file in the job specifications
MaxRows == 3
\* rows of a file handed to the CSV reader alone
MaxReaderRows == 3
\* times the broker hands the same job id to a worker (at-least-once)
MaxDeliveries == 2
\* unexpected (non-validation) faults injected into one behaviour
MaxFaults == 1
\* product API requests issued in one behaviour
MaxRequests == 2
\* polling ticks of one progress stream
MaxTicks == 3
\* tasks.py:29 sets BATCH_SIZE = 1000; the model scales the window down
BATCH_SIZE == 2
\* upload.py:17-19 reads chunks of 1 MB and caps an upload at 200 MB; the
\* model scales the megabyte down to MB bytes and the cap to MAX_CSV_SIZE_MB
\* of them
MB == 2
MAX_CSV_SIZE_MB == 2
\* calls of the webhook service alone in one behaviour
MaxNotified == 2

(***************************************************************************)
(* Python values.                                                          *)
(***************************************************************************)
\* None where a str is expected (a one-element sequence no text equals)
NoneStr == <<"None">>
\* None where an int is expected (ImportJob.total_records)
NoneInt == 0 - 1

\* str.lower() on the characters the model uses
LowerChar(c) ==
  CASE c = "A" -> "a"
    [] c = "B" -> "b"
    [] c = "N" -> "n"
    [] c = "S" -> "s"
    [] c = "K" -> "k"
    [] c = "U" -> "u"
    [] c = "C" -> "c"
    [] c = "V" -> "v"
    [] OTHER -> c

RECURSIVE lower(_)
lower(s) == IF s = <<>> THEN <<>> ELSE <<LowerChar(Head(s))>> \o lower(Tail(s))

RECURSIVE lstrip(_)
lstrip(s) == IF s # <<>> /\ Head(s) = " " THEN lstrip(Tail(s)) ELSE s

RECURSIVE rstrip(_)
rstrip(s) ==
  IF s # <<>> /\ s[Len(s)] = " " THEN rstrip(SubSeq(s, 1, Len(s) - 1)) ELSE s

\* str.strip()
strip(s) == rstrip(lstrip(s))

\* `value or ""`
OrEmpty(v) == IF v = NoneStr THEN <<>> ELSE v

\* `value or None`
OrNone(v) == IF v = <<>> THEN NoneStr ELSE v

(***************************************************************************)
(* models.py                                                               *)
(***************************************************************************)
PENDING == "pending"
PROCESSING == "processing"
COMPLETED == "completed"
FAILED == "failed"

\* Product.normalize_sku
normalize_sku(value) == lower(strip(value))

(***************************************************************************)
(* services/csv_processor.py                                               *)
(***************************************************************************)
COL_NAME == <<"n", "a", "m", "e">>
COL_SKU == <<"s", "k", "u">>
COL_DESCRIPTION == <<"d", "e", "s", "c", "r", "i", "p", "t", "i", "o", "n">>
REQUIRED_COLUMNS == <<COL_NAME, COL_SKU, COL_DESCRIPTION>>

\* An exception message: fixed text plus the column names joined into it.
Msg(text) == [text |-> text, columns |-> <<>>]
NoError == Msg("")
MSG_NO_HEADER == Msg("CSV file is missing a header row.")
MSG_NO_FILE == Msg("Uploaded CSV file no longer exists on the server.")
MSG_ROW == Msg("Each row must include non-empty 'name' and 'sku' values.")
MsgMissing(missing) ==
  [text |-> "CSV missing required columns: ", columns |-> missing]

RECURSIVE SelectSeqIn(_, _)
\* [x for x in s if x in keep]
SelectSeqIn(s, keep) ==
  IF s = <<>> THEN <<>>
  ELSE (IF Head(s) \in keep THEN <<Head(s)>> ELSE <<>>)
         \o SelectSeqIn(Tail(s), keep)

\* the cleaned field names of _validate_headers
\* (as a comparison without strip() and lower() would)
CleanFieldsExact(fieldnames) ==
  {fieldnames[i] : i \in {k \in 1..Len(fieldnames) : fieldnames[k] # <<>>}}
CleanFields(fieldnames) ==
  {lower(strip(fieldnames[i])) :
     i \in {k \in 1..Len(fieldnames) : fieldnames[k] # <<>>}}

\* _validate_headers: NoError, or the message of the CSVValidationError
_validate_headers(fieldnames) ==
  IF fieldnames = <<>> THEN MSG_NO_HEADER
  ELSE LET missing ==
             SelectSeqIn(REQUIRED_COLUMNS,
                         {c \in {REQUIRED_COLUMNS[i] : i \in 1..3} :
                            c \notin CleanFields(fieldnames)})
       IN IF missing # <<>> THEN MsgMissing(missing) ELSE NoError

\* csv.DictReader: row.get(key) over dict(zip(fieldnames, row))
RowGet(header, row, key) ==
  LET idx == {i \in 1..Len(header) : i <= Len(row) /\ header[i] = key}
  IN IF idx = {} THEN NoneStr
     ELSE row[CHOOSE i \in idx : \A k \in idx : k <= i]

\* a count pass that leaves out the last row of the file
count_rows_short(file, exists) ==
  IF ~exists THEN [error |-> MSG_NO_FILE, total |-> 0]
  ELSE LET e == _validate_headers(file.header)
       IN IF e # NoError THEN [error |-> e, total |-> 0]
          ELSE [error |-> NoError,
                total |-> IF file.rows = <<>> THEN 0 ELSE Len(file.rows) - 1]
\* count_rows: [error, total]
count_rows(file, exists) ==
  IF ~exists THEN [error |-> MSG_NO_FILE, total |-> 0]
  ELSE LET e == _validate_headers(file.header)
       IN IF e # NoError THEN [error |-> e, total |-> 0]
          ELSE [error |-> NoError, total |-> Len(file.rows)]

\* a reader keeping the first record of a key (as dict.setdefault would)
DictPutFirstWins(batch, rec) ==
  IF \E i \in 1..Len(batch) : batch[i].sku_normalized = rec.sku_normalized
  THEN batch
  ELSE Append(batch, rec)

\* current_batch[normalized_sku] = record  (a dict keeps the place of a key
\* it already holds)
DictPut(batch, rec) ==
  IF \E i \in 1..Len(batch) : batch[i].sku_normalized = rec.sku_normalized
  THEN [i \in 1..Len(batch) |->
          IF batch[i].sku_normalized = rec.sku_normalized THEN rec
          ELSE batch[i]]
  ELSE Append(batch, rec)

\* the normalized record of one csv row (iter_batches, lines 51-65)
RowRecord(header, row) ==
  LET name == strip(OrEmpty(RowGet(header, row, COL_NAME)))
      sku == strip(OrEmpty(RowGet(header, row, COL_SKU)))
      description == OrNone(strip(OrEmpty(RowGet(header, row, COL_DESCRIPTION))))
  IN [name |-> name, sku |-> sku, sku_normalized |-> normalize_sku(sku),
      description |-> description, active |-> TRUE]

RECURSIVE ScanRows(_, _, _, _, _)
\* the body of the generator from row `pos` on, up to its next yield,
\* raise or return
ScanRows(file, pos, current_batch, raw_since_flush, batch_size) ==
  IF pos > Len(file.rows)
  THEN IF current_batch # <<>>
       THEN [kind |-> "batch", rows |-> current_batch,
             raw |-> raw_since_flush, pos |-> pos, error |-> NoError]
       ELSE [kind |-> "stop", rows |-> <<>>, raw |-> 0, pos |-> pos,
             error |-> NoError]
  ELSE LET rec == RowRecord(file.header, file.rows[pos])
           batch == DictPut(current_batch, rec)
       IN IF rec.name = <<>> \/ rec.sku = <<>>
          THEN [kind |-> "error", rows |-> <<>>, raw |-> raw_since_flush + 1,
                pos |-> pos, error |-> MSG_ROW]
          ELSE IF Len(batch) >= batch_size
               THEN [kind |-> "batch", rows |-> batch,
                     raw |-> raw_since_flush + 1, pos |-> pos + 1,
                     error |-> NoError]
               ELSE ScanRows(file, pos + 1, batch, raw_since_flush + 1,
                             batch_size)

\* a reader that yields every row as a batch of its own
iter_batches_row_by_row(file, exists, started, pos, batch_size) ==
  IF ~started /\ ~exists
  THEN [kind |-> "error", rows |-> <<>>, raw |-> 0, pos |-> pos,
        error |-> MSG_NO_FILE]
  ELSE IF ~started /\ _validate_headers(file.header) # NoError
  THEN [kind |-> "error", rows |-> <<>>, raw |-> 0, pos |-> pos,
        error |-> _validate_headers(file.header)]
  ELSE ScanRows(file, pos, <<>>, 0, 1)

\* one next() on iter_batches(file_path, batch_size); `started` is FALSE for
\* the first call, which runs the generator from its top
iter_batches(file, exists, started, pos, batch_size) ==
  IF ~started /\ ~exists
  THEN [kind |-> "error", rows |-> <<>>, raw |-> 0, pos |-> pos,
        error |-> MSG_NO_FILE]
  ELSE IF ~started /\ _validate_headers(file.header) # NoError
  THEN [kind |-> "error", rows |-> <<>>, raw |-> 0, pos |-> pos,
        error |-> _validate_headers(file.header)]
  ELSE ScanRows(file, pos, <<>>, 0, batch_size)


(***************************************************************************)
(* Inputs of the model.                                                    *)
(***************************************************************************)
JobIds == 1..2
Workers == 1..2
Requests == 1..2

GoodHeader == <<COL_NAME, COL_SKU, COL_DESCRIPTION>>
\* "Name,sku,description": passes the case-insensitive header check
CapsHeader == <<<<"N", "a", "m", "e">>, COL_SKU, COL_DESCRIPTION>>
\* " name ,SKU,description"
PaddedHeader ==
  <<<<" ", "n", "a", "m", "e", " ">>, <<"S", "K", "U">>, COL_DESCRIPTION>>
\* "name,description": no sku column
NoSkuHeader == <<COL_NAME, COL_DESCRIPTION>>
\* "Name,": only a capitalised name column and an empty field name
NameOnlyHeader == <<<<"N", "a", "m", "e">>, <<>>>>

\* rows under a three-column header: name, sku, description
RowA == <<<<"n">>, <<"A">>, <<"d">>>>
Rowa == <<<<"m">>, <<"a", " ">>, <<>>>>
Rowb == <<<<"n">>, <<" ", "b">>, <<" ">>>>
RowBlankName == <<<<" ">>, <<"A">>, <<"d">>>>
RowBlankSku == <<<<"n">>, <<" ">>, <<>>>>
RowShort == <<<<"n">>>>

RECURSIVE SeqsUpTo(_, _)
\* the sequences over S of length at most n
SeqsUpTo(S, n) ==
  IF n = 0 THEN {<<>>}
  ELSE LET shorter == SeqsUpTo(S, n - 1)
       IN shorter \cup {Append(q, x) : q \in shorter, x \in S}

File(header, rows) == [header |-> header, rows |-> rows]
EmptyFile == File(<<>>, <<>>)

\* files an upload stages in the job specifications
JobFiles ==
  {File(GoodHeader, rows) : rows \in SeqsUpTo({RowA, Rowa, Rowb, RowBlankName}, MaxRows)}
    \cup {File(CapsHeader, <<>>), File(CapsHeader, <<RowA>>),
          File(PaddedHeader, <<RowA, Rowb>>),
          File(NoSkuHeader, <<<<<<"n">>, <<"d">>>>>>),
          File(NameOnlyHeader, <<>>)}

\* files of the specification with concurrent workers
WorkerFiles ==
  {File(GoodHeader, <<RowA, Rowb, RowBlankName>>), File(GoodHeader, <<Rowa>>)}

\* files of the specifications that follow one job
SmallFiles ==
  {File(GoodHeader, <<RowA, Rowb, Rowa>>),
   File(GoodHeader, <<RowA, Rowb, RowBlankName>>),
   File(GoodHeader, <<Rowa>>),
   File(NoSkuHeader, <<>>)}

\* files handed to the CSV reader alone
ReaderFiles ==
  {File(GoodHeader, rows) :
     rows \in SeqsUpTo({RowA, Rowa, Rowb, RowBlankName, RowBlankSku, RowShort},
                       MaxReaderRows)}
    \cup {File(CapsHeader, <<RowA>>), File(NoSkuHeader, <<>>), EmptyFile}

ProductRow(id, name, sku, sku_normalized, description, active) ==
  [id |-> id, name |-> name, sku |-> sku, sku_normalized |-> sku_normalized,
   description |-> description, active |-> active]

OldA == ProductRow(1, <<"o">>, <<"A">>, <<"a">>, NoneStr, FALSE)
OldC == ProductRow(2, <<"o">>, <<"c">>, <<"c">>, <<"d">>, TRUE)

\* product tables the store holds before the first upload
InitialTables == {{}, {OldA}, {OldA, OldC}}

(***************************************************************************)
(* State.                                                                  *)
(***************************************************************************)
VARIABLES
  products,       \* the committed rows of table products
  nextId,         \* the next value of the products.id sequence
  jobs,           \* the committed rows of table import_jobs, by job id
  storage,        \* the staged upload of each job: its content, and whether
                  \* the file still exists
  queue,          \* messages of process_csv_import waiting in the broker
  deliveries,     \* messages ever enqueued for each job id
  lock,           \* the worker holding the FOR UPDATE lock of each job row
  inv,            \* each worker's invocation of _process_csv_import
  faults,         \* unexpected faults injected so far
  reqs,           \* each in-flight product API request
  issued,         \* product API requests issued so far
  reader,         \* a caller iterating iter_batches on its own
  touched,        \* history: normalized SKUs each job has upserted
  startProducts,  \* history: the product table when each job was last loaded
  doneProducts,   \* history: the product table when each job last completed
  webhooks,       \* the rows of table webhooks
  events,         \* the delivery units enqueued for dispatch_webhook, in
                  \* the order of their enqueueing, each with its state
  redis,          \* the progress hash of each job in Redis
  stream,         \* one client of the progress stream
  runs,           \* history: the invocations of each job that have ended
  upload,         \* the request being served by upload_products
  notified        \* history: the last call of enqueue_webhook_events made
                  \* on its own

vars ==
  <<products, nextId, jobs, storage, queue, deliveries, lock, inv, faults,
    reqs, issued, reader, touched, startProducts, doneProducts, webhooks,
    events, redis, stream, runs, upload, notified>>

JobRow(status, progress, total_records, processed_records, file_path, error_message) ==
  [status |-> status, progress |-> progress, total_records |-> total_records,
   processed_records |-> processed_records, file_path |-> file_path,
   error_message |-> error_message]

\* no row of import_jobs under this id
AbsentJob == JobRow("absent", 0, NoneInt, 0, FALSE, NoError)

IdleInv ==
  [pc |-> "idle", job_id |-> 0, job |-> AbsentJob, started |-> FALSE,
   pos |-> 1, batch |-> <<>>, raw_count |-> 0, existing_skus |-> {},
   result |-> "none"]

\* `total_products` is the count bulk_delete_products read, `deleted` the
\* count the last bulk delete of the request slot returned (None before)
IdleReq ==
  [pc |-> "idle", id |-> 0, name |-> <<>>, sku |-> <<>>,
   loaded |-> ProductRow(0, <<>>, <<>>, <<>>, NoneStr, FALSE),
   total_products |-> 0, deleted |-> NoneInt]

IdleReader ==
  [file |-> EmptyFile, exists |-> FALSE, started |-> FALSE, pos |-> 1,
   batch_size |-> 1, state |-> "off", out |-> <<>>, error |-> NoError,
   total |-> NoneInt]

(***************************************************************************)
(* tasks.py: helpers.                                                      *)
(***************************************************************************)
MSG_NO_PATH == Msg("Upload reference missing; cannot process.")
MSG_COUNT_FAULT == Msg("Unexpected error preparing import.")
MSG_BATCH_FAULT == Msg("Unexpected error processing CSV.")

Min(a, b) == IF a <= b THEN a ELSE b

\* _calculate_progress
_calculate_progress(processed, total) ==
  IF total = NoneInt \/ total = 0 THEN 0
  ELSE Min((processed * 100) \div total, 100)

\* session.commit() of one ImportJob object: the UPDATE carries the columns
\* whose value differs from what the session last loaded or wrote (`old`),
\* and leaves the other columns of the committed row (`row`) as they are
FlushJob(row, old, new) ==
  JobRow(IF new.status # old.status THEN new.status ELSE row.status,
         IF new.progress # old.progress THEN new.progress ELSE row.progress,
         IF new.total_records # old.total_records
           THEN new.total_records ELSE row.total_records,
         IF new.processed_records # old.processed_records
           THEN new.processed_records ELSE row.processed_records,
         IF new.file_path # old.file_path THEN new.file_path ELSE row.file_path,
         IF new.error_message # old.error_message
           THEN new.error_message ELSE row.error_message)

\* the job object after _update_job_status assigned its fields
StatusAssigned(job, status, reset_progress) ==
  LET j1 == [job EXCEPT !.status = status]
      j2 == IF reset_progress
            THEN [j1 EXCEPT !.progress = 0, !.processed_records = 0]
            ELSE j1
  IN IF status = COMPLETED THEN [j2 EXCEPT !.progress = 100] ELSE j2

\* a failure that records its message and leaves the status alone
FailedAssignedMessageOnly(job, message) ==
  [job EXCEPT !.error_message = message, !.progress = 0]
\* a failure that also resets the count of processed records
FailedAssignedResetting(job, message) ==
  [job EXCEPT !.status = "failed", !.error_message = message, !.progress = 0,
              !.processed_records = 0]
\* the job object after _mark_failed assigned its fields
FailedAssigned(job, message) ==
  [job EXCEPT !.status = FAILED, !.error_message = message, !.progress = 0]

\* _cleanup_file: unlink(missing_ok=True) of the job's staged file
CleanedUp(store, file_path) ==
  IF file_path THEN [store EXCEPT !.exists = FALSE] ELSE store

\* the row INSERT ... ON CONFLICT (sku_normalized) DO UPDATE leaves for one
\* proposed record
\* (as ON CONFLICT DO NOTHING would)
UpsertOneNoUpdate(table, rec, id) ==
  IF \E p \in table : p.sku_normalized = rec.sku_normalized
  THEN table
  ELSE table \cup {ProductRow(id, rec.name, rec.sku, rec.sku_normalized,
                              rec.description, rec.active)}
\* (as a delete followed by an insert would)
UpsertOneReplace(table, rec, id) ==
  {p \in table : p.sku_normalized # rec.sku_normalized}
    \cup {ProductRow(id, rec.name, rec.sku, rec.sku_normalized,
                     rec.description, rec.active)}
UpsertOne(table, rec, id) ==
  IF \E p \in table : p.sku_normalized = rec.sku_normalized
  THEN {IF p.sku_normalized = rec.sku_normalized
        THEN [p EXCEPT !.name = rec.name, !.sku = rec.sku,
                       !.description = rec.description]
        ELSE p : p \in table}
  ELSE table \cup {ProductRow(id, rec.name, rec.sku, rec.sku_normalized,
                              rec.description, rec.active)}

RECURSIVE UpsertAll(_, _, _)
\* _upsert_products: [table, nextId] after the statement
UpsertAll(table, rows, id) ==
  IF rows = <<>> THEN [table |-> table, nextId |-> id]
  ELSE LET fresh == \A p \in table : p.sku_normalized # Head(rows).sku_normalized
       IN UpsertAll(UpsertOne(table, Head(rows), id), Tail(rows),
                    IF fresh THEN id + 1 ELSE id)

_upsert_products(table, rows, id) == UpsertAll(table, rows, id)

BatchSkus(rows) == {rows[i].sku_normalized : i \in 1..Len(rows)}

(***************************************************************************)
(* models.py: webhook subscribers.  services/webhook_service.py: the       *)
(* delivery units an event is fanned out to.                               *)
(***************************************************************************)
PRODUCT_CREATED == "product.created"
PRODUCT_UPDATED == "product.updated"
IMPORT_COMPLETED == "import.completed"
IMPORT_FAILED == "import.failed"
BULK_DELETE_COMPLETED == "bulk_delete.completed"

\* the target URL of the webhook with this id
Url(id) == <<"https://example.com/", id>>

\* a row of table webhooks
Webhook(id, event_type, enabled) ==
  [id |-> id, url |-> Url(id), event_type |-> event_type, enabled |-> enabled]

\* a query that leaves out the filter on enabled
fetch_webhooks_of_type(table, event_type) ==
  {h \in table : h.event_type = event_type}
\* fetch_enabled_webhooks
fetch_enabled_webhooks(table, event_type) ==
  {h \in table : h.event_type = event_type /\ h.enabled}

NoProduct == ProductRow(0, <<>>, <<>>, <<>>, NoneStr, FALSE)

\* the payload of a product event: ProductRead of the row
ProductPayload(product) ==
  [job_id |-> 0, product |-> product, processed_records |-> NoneInt,
   total_records |-> NoneInt, message |-> NoError]

\* the payload of import.completed, lines 179-183
CompletedPayload(job_id, job) ==
  [job_id |-> job_id, product |-> NoProduct,
   processed_records |-> job.processed_records,
   total_records |-> job.total_records, message |-> NoError]

\* an import.failed payload with a fixed text in place of the message
FailedPayloadGeneric(job_id, message) ==
  [job_id |-> job_id, product |-> NoProduct, processed_records |-> NoneInt,
   total_records |-> NoneInt, message |-> MSG_BATCH_FAULT]
\* the payload of import.failed, lines 258-261
FailedPayload(job_id, message) ==
  [job_id |-> job_id, product |-> NoProduct, processed_records |-> NoneInt,
   total_records |-> NoneInt, message |-> message]

\* dispatch_webhook: max_retries of the actor
WEBHOOK_MAX_RETRIES == 3

\* webhook_service._dispatch_webhook with the handler of line 64 left out:
\* an exception of send() reaches the caller
service_dispatch_webhook_raising(message, lost) ==
  [unit |-> [message EXCEPT !.state = IF lost THEN "lost" ELSE "queued"],
   raised |-> lost]
\* webhook_service._dispatch_webhook: the message is sent to the actor
\* dispatch_webhook; when send() raises (`lost`) the exception is logged and
\* the message is not enqueued
service_dispatch_webhook(message, lost) ==
  [unit |-> [message EXCEPT !.state = IF lost THEN "lost" ELSE "queued"],
   raised |-> FALSE]

RECURSIVE DispatchAll(_, _, _, _, _, _)
\* lines 49-55 of enqueue_webhook_events: one message per subscriber, by id;
\* `log_status` is the committed status of the job when the event is
\* enqueued (history, no part of the message)
DispatchAll(hooks, event_type, payload, fail, run, log_status) ==
  IF hooks = {} THEN [units |-> <<>>, raised |-> FALSE]
  ELSE LET h == CHOOSE x \in hooks : \A y \in hooks : x.id <= y.id
           message == [event_type |-> event_type, payload |-> payload,
                       webhook_id |-> h.id, url |-> h.url, state |-> "new",
                       retries |-> 0,
                       posts |-> 0, run |-> run, log_status |-> log_status]
           d == service_dispatch_webhook(message, h.id \in fail)
       IN IF d.raised THEN [units |-> <<d.unit>>, raised |-> TRUE]
          ELSE LET rest == DispatchAll(hooks \ {h}, event_type, payload, fail,
                                       run, log_status)
               IN [units |-> <<d.unit>> \o rest.units, raised |-> rest.raised]

\* the argument webhook_ids: None, or a collection of ids
NoIds == [given |-> FALSE, ids |-> {}]
Ids(S) == [given |-> TRUE, ids |-> S]

\* no call of enqueue_webhook_events with explicit arguments so far
NoCall == [n |-> 0, event_type |-> "", webhook_ids |-> NoIds]

\* lines 31-39 of enqueue_webhook_events: `if webhook_ids:` holds for a
\* collection that is not empty, and then the rows are selected by id and
\* enabled; None and an empty collection select by event type
ResolveWebhooks(table, event_type, webhook_ids) ==
  IF webhook_ids.given /\ webhook_ids.ids # {}
  THEN {h \in table : h.id \in webhook_ids.ids /\ h.enabled}
  ELSE fetch_enabled_webhooks(table, event_type)

\* enqueue_webhook_events(session, event_type, payload, webhook_ids)
enqueue_webhook_events_ids(table, event_type, payload, webhook_ids, fail, run, log_status) ==
  DispatchAll(ResolveWebhooks(table, event_type, webhook_ids), event_type,
              payload, fail, run, log_status)

\* enqueue_webhook_events(session, event_type, payload), as every caller of
\* the application calls it: webhook_ids is None
enqueue_webhook_events(table, event_type, payload, fail, run, log_status) ==
  enqueue_webhook_events_ids(table, event_type, payload, NoIds, fail, run,
                             log_status)

RECURSIVE EnqueueProducts(_, _, _, _, _, _)
\* lines 145-155: one event per product selected after the commit, created
\* when its normalized SKU was not among existing_skus
EnqueueProducts(table, selected, existing_skus, fail, run, log_status) ==
  IF selected = <<>> THEN [units |-> <<>>, raised |-> FALSE]
  ELSE LET product == Head(selected)
           event_type == IF product.sku_normalized \notin existing_skus
                         THEN PRODUCT_CREATED ELSE PRODUCT_UPDATED
           e == enqueue_webhook_events(table, event_type,
                                       ProductPayload(product), fail, run,
                                       log_status)
       IN IF e.raised THEN e
          ELSE LET rest == EnqueueProducts(table, Tail(selected),
                                           existing_skus, fail, run, log_status)
               IN [units |-> e.units \o rest.units, raised |-> rest.raised]

\* the orders in which a SELECT without ORDER BY returns the rows S
Orders(S) ==
  {q \in [1..Cardinality(S) -> S] : \A x \in S : \E i \in DOMAIN q : q[i] = x}

(***************************************************************************)
(* progress_manager.py: the progress hash of a job in Redis.  Every value   *)
(* is stored as text; a field the hash does not hold reads "", <<>> or     *)
(* NoError.                                                                *)
(***************************************************************************)
DigitChars == <<"0", "1", "2", "3", "4", "5", "6", "7", "8", "9">>

RECURSIVE str(_)
\* str(n) of a natural number
str(n) ==
  IF n < 10 THEN <<DigitChars[n + 1]>>
  ELSE str(n \div 10) \o <<DigitChars[(n % 10) + 1]>>

RECURSIVE int(_)
\* int(text) of progress.py line 60: 0 for an empty text and for a text that
\* is no number (ValueError)
int(text) ==
  IF text = <<>> \/ \E i \in 1..Len(text) : \A d \in 1..10 : DigitChars[d] # text[i]
  THEN 0
  ELSE LET last == CHOOSE d \in 0..9 : DigitChars[d + 1] = text[Len(text)]
       IN IF Len(text) = 1 THEN last
          ELSE 10 * int(SubSeq(text, 1, Len(text) - 1)) + last

\* the keyword arguments of one update_progress call; an argument that is
\* not passed is "", <<>> or NoError
Fields(status, progress, processed, total, phase, message) ==
  [status |-> status, progress |-> progress, processed |-> processed,
   total |-> total, phase |-> phase, message |-> message]

\* no hash under the key of the job
NoProgress ==
  [set |-> FALSE, status |-> "", progress |-> <<>>, processed |-> <<>>,
   total |-> <<>>, phase |-> "", message |-> NoError]

\* `x or 0` of an int that may be None
OrZero(n) == IF n = NoneInt THEN 0 ELSE n

\* update_progress(job_id, **fields): HSET of the fields passed, the others
\* keep their value
update_progress(hash, fields) ==
  [set |-> TRUE,
   status |-> IF fields.status # "" THEN fields.status ELSE hash.status,
   progress |-> IF fields.progress # <<>> THEN fields.progress
                ELSE hash.progress,
   processed |-> IF fields.processed # <<>> THEN fields.processed
                 ELSE hash.processed,
   total |-> IF fields.total # <<>> THEN fields.total ELSE hash.total,
   phase |-> IF fields.phase # "" THEN fields.phase ELSE hash.phase,
   message |-> IF fields.message # NoError THEN fields.message
               ELSE hash.message]

\* a DEL that leaves the hash in place
clear_progress_kept(hash) == hash
\* clear_progress(job_id): DEL of the key
clear_progress(hash) == NoProgress

(***************************************************************************)
(* api/upload.py                                                           *)
(***************************************************************************)
\* upload_products, lines 56-69: the job row is committed, then its id is sent
Upload(j, f) ==
  /\ jobs[j].status = "absent"
  /\ jobs' = [jobs EXCEPT ![j] = JobRow(PENDING, 0, NoneInt, 0, TRUE, NoError)]
  /\ storage' = [storage EXCEPT ![j] = [file |-> f, exists |-> TRUE]]
  /\ queue' = [queue EXCEPT ![j] = @ + 1]
  /\ deliveries' = [deliveries EXCEPT ![j] = @ + 1]
  /\ UNCHANGED <<products, nextId, lock, inv, faults, reqs, issued, reader,
                 touched, startProducts, doneProducts, webhooks, events,
                 redis, stream, runs,
                 upload, notified>>

(***************************************************************************)
(* api/upload.py: upload_products step by step.  A request carries a file  *)
(* name and a body of `size` bytes whose CSV content is `body`; the bytes  *)
(* are read and written one chunk at a time.                               *)
(***************************************************************************)
\* line 19
CHUNK_SIZE == MB

CSV_SUFFIX == <<".", "c", "s", "v">>

\* str.endswith
endswith(s, suffix) ==
  /\ Len(s) >= Len(suffix)
  /\ SubSeq(s, Len(s) - Len(suffix) + 1, Len(s)) = suffix

HTTP_202_ACCEPTED == 202
HTTP_400_BAD_REQUEST == 400

\* the destination file of a request: whether it exists in UPLOAD_DIR, and
\* the bytes written to it
NoDestination == [exists |-> FALSE, bytes |-> 0]

IdleUpload ==
  [pc |-> "idle", filename |-> <<>>, body |-> EmptyFile, size |-> 0,
   read |-> 0, written_bytes |-> 0, destination |-> NoDestination,
   job_id |-> 0, response |-> 0]

\* a rejection that leaves the destination file behind
RejectedKeepingFile(u) ==
  [u EXCEPT !.pc = "done", !.response = HTTP_400_BAD_REQUEST]
\* lines 48-50 and 52-54: destination.unlink(missing_ok=True), then the 400
Rejected(u) ==
  [u EXCEPT !.pc = "done", !.response = HTTP_400_BAD_REQUEST,
            !.destination = NoDestination]

\* the content of a staged file of which `bytes` of `size` bytes were
\* written; a truncated file is modelled as one without a header row
Staged(body, size, bytes) == IF bytes = size THEN body ELSE EmptyFile

\* what the upload handler leaves alone before it commits the job row
UploadUnchanged ==
  UNCHANGED <<products, nextId, jobs, storage, queue, deliveries, lock, inv,
              faults, reqs, issued, reader, touched, startProducts,
              doneProducts, webhooks, events, redis, stream, runs,
              notified>>

\* lines 29-39: the extension check, then the destination is opened "wb"
UploadBegin(filename, body, size) ==
  /\ upload.pc \in {"idle", "done"}
  /\ \E j \in JobIds : jobs[j].status = "absent"
  /\ LET u == [IdleUpload EXCEPT !.filename = filename, !.body = body,
                                 !.size = size]
     IN upload' =
          IF ~endswith(lower(filename), CSV_SUFFIX)
          THEN [u EXCEPT !.pc = "done", !.response = HTTP_400_BAD_REQUEST]
          ELSE [u EXCEPT !.pc = "read",
                         !.destination = [exists |-> TRUE, bytes |-> 0]]
  /\ UploadUnchanged

\* lines 40-50: one chunk is read, counted, checked against the cap and
\* written
UploadChunk ==
  LET chunk == Min(CHUNK_SIZE, upload.size - upload.read)
      written_bytes == upload.written_bytes + chunk
  IN /\ upload.pc = "read"
     /\ chunk > 0
     /\ upload' =
          IF written_bytes > MAX_CSV_SIZE_MB * MB
          THEN Rejected([upload EXCEPT !.read = @ + chunk,
                                       !.written_bytes = written_bytes])
          ELSE [upload EXCEPT !.read = @ + chunk,
                              !.written_bytes = written_bytes,
                              !.destination.bytes = @ + chunk]
     /\ UploadUnchanged

\* the enqueueing moved before the commit of the job row
UploadEndSendingFirst ==
  LET j == CHOOSE i \in JobIds :
             /\ jobs[i].status = "absent"
             /\ \A k \in JobIds : jobs[k].status = "absent" => i <= k
  IN /\ upload.pc = "read"
     /\ upload.read = upload.size
     /\ IF upload.written_bytes = 0
        THEN /\ upload' = [upload EXCEPT !.pc = "done",
                                         !.response = HTTP_400_BAD_REQUEST,
                                         !.destination = NoDestination]
             /\ UNCHANGED <<queue, deliveries>>
        ELSE /\ upload' = [upload EXCEPT !.pc = "commit"]
             /\ queue' = [queue EXCEPT ![j] = @ + 1]
             /\ deliveries' = [deliveries EXCEPT ![j] = @ + 1]
     /\ UNCHANGED <<products, nextId, jobs, storage, lock, inv, faults, reqs,
                    issued, reader, touched, startProducts, doneProducts,
                    webhooks, events, redis, stream, runs, notified>>

\* the read returns b"" and the loop ends; lines 52-54: the empty upload
UploadEnd ==
  /\ upload.pc = "read"
  /\ upload.read = upload.size
  /\ upload' = IF upload.written_bytes = 0 THEN Rejected(upload)
               ELSE [upload EXCEPT !.pc = "commit"]
  /\ UploadUnchanged

\* lines 56-64: the job row is added and committed; from here on the
\* destination file is the staged file of the job
UploadCommit ==
  LET j == CHOOSE i \in JobIds :
             /\ jobs[i].status = "absent"
             /\ \A k \in JobIds : jobs[k].status = "absent" => i <= k
      u == upload
  IN /\ u.pc = "commit"
     /\ jobs' = [jobs EXCEPT ![j] =
                   JobRow(PENDING, 0, NoneInt, 0, TRUE, NoError)]
     /\ storage' = [storage EXCEPT ![j] =
                      [file |-> Staged(u.body, u.size, u.destination.bytes),
                       exists |-> u.destination.exists]]
     /\ upload' = [u EXCEPT !.pc = "send", !.job_id = j,
                            !.destination = NoDestination]
     /\ UNCHANGED <<products, nextId, queue, deliveries, lock, inv, faults,
                    reqs, issued, reader, touched, startProducts, doneProducts,
                    webhooks, events, redis, stream, runs, notified>>

\* lines 67-71: process_csv_import.send(str(job.id)), then the 202
UploadSend ==
  LET j == upload.job_id
  IN /\ upload.pc = "send"
     /\ queue' = [queue EXCEPT ![j] = @ + 1]
     /\ deliveries' = [deliveries EXCEPT ![j] = @ + 1]
     /\ upload' = [upload EXCEPT !.pc = "done", !.response = HTTP_202_ACCEPTED]
     /\ UNCHANGED <<products, nextId, jobs, storage, lock, inv, faults, reqs,
                    issued, reader, touched, startProducts, doneProducts,
                    webhooks, events, redis, stream, runs, notified>>

\* the broker hands a job id out again (at-least-once dispatch, or a retry
\* after the actor raised Retry)
Redeliver(j) ==
  /\ jobs[j].status # "absent"
  /\ deliveries[j] < MaxDeliveries
  /\ queue' = [queue EXCEPT ![j] = @ + 1]
  /\ deliveries' = [deliveries EXCEPT ![j] = @ + 1]
  /\ UNCHANGED <<products, nextId, jobs, storage, lock, inv, faults, reqs,
                 issued, reader, touched, startProducts, doneProducts,
                 webhooks, events, redis, stream, runs,
                 upload, notified>>

(***************************************************************************)
(* tasks.py: _process_csv_import, one action per committed step; the       *)
(* publication of a terminal status to the progress hash is a step of its  *)
(* own, after the commit and the enqueueing of the import event.           *)
(***************************************************************************)
\* a worker's UPDATE of the job row waits while another holds its row lock
RowFree(w, j) == lock[j] \in {0, w}

\* the invocation of job j that is running: its number and job id
Run(j) == [job |-> j, n |-> Len(runs[j]) + 1]

\* history: one entry for the invocation of job j that ends in this step
Ended(j, result, job, exists) ==
  [runs EXCEPT ![j] =
     Append(@, [result |-> result, status |-> job.status,
                error_message |-> job.error_message, file |-> exists])]

\* the subscribers whose send() may fail
Subscribers == {h.id : h \in webhooks}

\* the broker delivers a message that names a job id with no row
Stray(j) ==
  /\ jobs[j].status = "absent"
  /\ deliveries[j] < MaxDeliveries
  /\ queue' = [queue EXCEPT ![j] = @ + 1]
  /\ deliveries' = [deliveries EXCEPT ![j] = @ + 1]
  /\ UNCHANGED <<products, nextId, jobs, storage, lock, inv, faults, reqs,
                 issued, reader, touched, startProducts, doneProducts,
                 webhooks, events, redis, stream, runs, upload, notified>>

\* a worker that asks for a retry when the job row is missing
LoadRetryingAbsent(w, j) ==
  /\ inv[w].pc = "idle"
  /\ queue[j] > 0
  /\ lock[j] = 0
  /\ queue' = [queue EXCEPT ![j] = @ - 1]
  /\ IF jobs[j].status = "absent"
     THEN /\ inv' = [inv EXCEPT ![w] = [IdleInv EXCEPT !.result = "retry"]]
          /\ runs' = Ended(j, "retry", jobs[j], storage[j].exists)
          /\ UNCHANGED <<jobs, storage, lock, startProducts, events>>
     ELSE IF ~jobs[j].file_path
     THEN \E fail \in SUBSET Subscribers :
            LET row == FlushJob(jobs[j], jobs[j],
                                FailedAssigned(jobs[j], MSG_NO_PATH))
                e == enqueue_webhook_events(
                       webhooks, IMPORT_FAILED, FailedPayload(j, MSG_NO_PATH),
                       fail, Run(j), row.status)
            IN /\ jobs' = [jobs EXCEPT ![j] = row]
               /\ events' = events \o e.units
               /\ inv' = [inv EXCEPT ![w] =
                            [IdleInv EXCEPT !.pc = "publish", !.job_id = j,
                                            !.job = row, !.result = "returned"]]
               /\ UNCHANGED <<storage, lock, startProducts, runs>>
     ELSE /\ inv' = [inv EXCEPT ![w] =
                       [IdleInv EXCEPT !.pc = "loaded", !.job_id = j,
                                       !.job = jobs[j]]]
          /\ lock' = [lock EXCEPT ![j] = w]
          /\ startProducts' = [startProducts EXCEPT ![j] = products]
          /\ UNCHANGED <<jobs, storage, events, runs>>
  /\ UNCHANGED <<products, nextId, deliveries, faults, reqs, issued, reader,
                 touched, doneProducts, webhooks, redis, stream,
                 upload, notified>>
\* lines 62-74: the worker takes the message and loads the job FOR UPDATE
Load(w, j) ==
  /\ inv[w].pc = "idle"
  /\ queue[j] > 0
  /\ lock[j] = 0
  /\ queue' = [queue EXCEPT ![j] = @ - 1]
  /\ IF jobs[j].status = "absent"
     THEN /\ inv' = [inv EXCEPT ![w] = [IdleInv EXCEPT !.result = "returned"]]
          /\ runs' = Ended(j, "returned", jobs[j], storage[j].exists)
          /\ UNCHANGED <<jobs, storage, lock, startProducts, events>>
     ELSE IF ~jobs[j].file_path
     THEN \E fail \in SUBSET Subscribers :
            LET row == FlushJob(jobs[j], jobs[j],
                                FailedAssigned(jobs[j], MSG_NO_PATH))
                e == enqueue_webhook_events(
                       webhooks, IMPORT_FAILED, FailedPayload(j, MSG_NO_PATH),
                       fail, Run(j), row.status)
            IN /\ jobs' = [jobs EXCEPT ![j] = row]
               /\ events' = events \o e.units
               /\ inv' = [inv EXCEPT ![w] =
                            [IdleInv EXCEPT !.pc = "publish", !.job_id = j,
                                            !.job = row, !.result = "returned"]]
               /\ UNCHANGED <<storage, lock, startProducts, runs>>
     ELSE /\ inv' = [inv EXCEPT ![w] =
                       [IdleInv EXCEPT !.pc = "loaded", !.job_id = j,
                                       !.job = jobs[j]]]
          /\ lock' = [lock EXCEPT ![j] = w]
          /\ startProducts' = [startProducts EXCEPT ![j] = products]
          /\ UNCHANGED <<jobs, storage, events, runs>>
  /\ UNCHANGED <<products, nextId, deliveries, faults, reqs, issued, reader,
                 touched, doneProducts, webhooks, redis, stream,
                 upload, notified>>

\* lines 76-86: clear_progress, _update_job_status(PROCESSING,
\* reset_progress=True), update_progress; the commit ends the transaction
\* that holds the row lock, the refresh reloads the job object
EnterProcessing(w) ==
  LET j == inv[w].job_id
      new == StatusAssigned(inv[w].job, PROCESSING, TRUE)
      row == FlushJob(jobs[j], inv[w].job, new)
  IN /\ inv[w].pc = "loaded"
     /\ jobs' = [jobs EXCEPT ![j] = row]
     /\ lock' = [lock EXCEPT ![j] = 0]
     /\ redis' = [redis EXCEPT ![j] =
                       update_progress(
                         clear_progress(@),
                         Fields(PROCESSING, str(0), <<>>, <<>>, "counting",
                                Msg("Counting CSV rows")))]
     /\ inv' = [inv EXCEPT ![w].pc = "count", ![w].job = row]
     /\ UNCHANGED <<products, nextId, storage, queue, deliveries, faults,
                    reqs, issued, reader, touched, startProducts, doneProducts,
                    webhooks, events, stream, runs,
                 upload, notified>>

\* lines 88-113: the count pass, then either the commit and the event of
\* _mark_failed with the validator's message, or the commit of
\* total_records and update_progress
Count(w) ==
  LET j == inv[w].job_id
      job == inv[w].job
      r == count_rows(storage[j].file, storage[j].exists)
      failed == FailedAssigned(job, r.error)
      counted == [job EXCEPT !.total_records = r.total, !.processed_records = 0]
  IN /\ inv[w].pc = "count"
     /\ RowFree(w, j)
     /\ IF r.error # NoError
        THEN \E fail \in SUBSET Subscribers :
               LET row == FlushJob(jobs[j], job, failed)
                   e == enqueue_webhook_events(
                          webhooks, IMPORT_FAILED, FailedPayload(j, r.error),
                          fail, Run(j), row.status)
               IN /\ jobs' = [jobs EXCEPT ![j] = row]
                  /\ events' = events \o e.units
                  /\ inv' = [inv EXCEPT ![w].pc = "publish", ![w].job = failed,
                                        ![w].result = "returned"]
                  /\ UNCHANGED redis
        ELSE /\ jobs' = [jobs EXCEPT ![j] = FlushJob(@, job, counted)]
             /\ redis' = [redis EXCEPT ![j] =
                               update_progress(
                                 @, Fields(PROCESSING, str(0), <<>>,
                                           str(r.total), "importing",
                                           Msg("Starting import")))]
             /\ inv' = [inv EXCEPT ![w].pc = "next_batch", ![w].job = counted]
             /\ UNCHANGED events
     /\ UNCHANGED <<products, nextId, storage, queue, deliveries, lock, faults,
                    reqs, issued, reader, touched, startProducts, doneProducts,
                    webhooks, stream, runs,
                 upload, notified>>

\* lines 118-125 and 164-173: one next() of the batch iterator; a batch is
\* followed by the existence query, a validation error by the commit and the
\* event of _mark_failed, the end of the file by the cleanup of the finally
\* clause
NextBatch(w) ==
  LET j == inv[w].job_id
      job == inv[w].job
      r == iter_batches(storage[j].file, storage[j].exists, inv[w].started,
                        inv[w].pos, BATCH_SIZE)
      failed == FailedAssigned(job, r.error)
  IN /\ inv[w].pc = "next_batch"
     /\ r.kind = "error" => RowFree(w, j)
     /\ IF r.kind = "error"
        THEN \E fail \in SUBSET Subscribers :
               LET row == FlushJob(jobs[j], job, failed)
                   e == enqueue_webhook_events(
                          webhooks, IMPORT_FAILED, FailedPayload(j, r.error),
                          fail, Run(j), row.status)
               IN /\ jobs' = [jobs EXCEPT ![j] = row]
                  /\ events' = events \o e.units
        ELSE UNCHANGED <<jobs, events>>
     /\ storage' = IF r.kind = "stop"
                   THEN [storage EXCEPT ![j] = CleanedUp(@, job.file_path)]
                   ELSE storage
     /\ inv' = [inv EXCEPT ![w] =
                  CASE r.kind = "batch" ->
                         [@ EXCEPT !.pc = "upsert", !.started = TRUE,
                                   !.pos = r.pos, !.batch = r.rows,
                                   !.raw_count = r.raw,
                                   !.existing_skus =
                                     {p.sku_normalized : p \in products}
                                       \cap BatchSkus(r.rows)]
                    [] r.kind = "stop" ->
                         [@ EXCEPT !.pc = "complete", !.started = TRUE]
                    [] OTHER ->
                         [@ EXCEPT !.pc = "publish", !.job = failed,
                                   !.result = "returned"]]
     /\ UNCHANGED <<products, nextId, queue, deliveries, lock, faults, reqs,
                    issued, reader, touched, startProducts, doneProducts,
                    webhooks, redis, stream, runs,
                 upload, notified>>

\* lines 127-163: the upsert of the batch and the job counters, committed
\* together, then one event per product of the batch and update_progress.
\* An exception out of enqueue_webhook_events is caught at line 168.
Upsert(w) ==
  LET j == inv[w].job_id
      job == inv[w].job
      u == _upsert_products(products, inv[w].batch, nextId)
      processed == job.processed_records + inv[w].raw_count
      new == [job EXCEPT !.processed_records = processed,
                         !.progress =
                           _calculate_progress(processed, job.total_records)]
      row == FlushJob(jobs[j], job, new)
      selected == {p \in u.table : p.sku_normalized \in BatchSkus(inv[w].batch)}
  IN /\ inv[w].pc = "upsert"
     /\ RowFree(w, j)
     /\ products' = u.table
     /\ nextId' = u.nextId
     /\ touched' = [touched EXCEPT ![j] = @ \cup BatchSkus(inv[w].batch)]
     /\ \E fail \in SUBSET Subscribers, order \in Orders(selected) :
          LET e == EnqueueProducts(webhooks, order, inv[w].existing_skus, fail,
                                   Run(j), row.status)
              failed == FailedAssigned(new, MSG_BATCH_FAULT)
              frow == FlushJob(row, new, failed)
              f == enqueue_webhook_events(
                     webhooks, IMPORT_FAILED, FailedPayload(j, MSG_BATCH_FAULT),
                     fail, Run(j), frow.status)
          IN IF e.raised
             THEN /\ jobs' = [jobs EXCEPT ![j] = frow]
                  /\ events' = events \o e.units \o f.units
                  /\ inv' = [inv EXCEPT ![w].pc = "publish", ![w].job = failed,
                                        ![w].result = "retry"]
                  /\ UNCHANGED redis
             ELSE /\ jobs' = [jobs EXCEPT ![j] = row]
                  /\ events' = events \o e.units
                  /\ redis' = [redis EXCEPT ![j] =
                                    update_progress(
                                      @, Fields(PROCESSING, str(new.progress),
                                                str(new.processed_records),
                                                str(OrZero(new.total_records)),
                                                "", NoError))]
                  /\ inv' = [inv EXCEPT ![w].pc = "next_batch", ![w].job = new,
                                        ![w].batch = <<>>, ![w].raw_count = 0,
                                        ![w].existing_skus = {}]
     /\ UNCHANGED <<storage, queue, deliveries, lock, faults, reqs, issued,
                    reader, startProducts, doneProducts, webhooks, stream,
                    runs,
                 upload, notified>>

\* a completion that enqueues import.completed before the status is committed
CompleteEventFirst(w) ==
  LET j == inv[w].job_id
      job == inv[w].job
      new == StatusAssigned(job, COMPLETED, FALSE)
      row == FlushJob(jobs[j], job, new)
  IN /\ inv[w].pc = "complete"
     /\ RowFree(w, j)
     /\ jobs' = [jobs EXCEPT ![j] = row]
     /\ doneProducts' = [doneProducts EXCEPT ![j] = products]
     /\ \E fail \in SUBSET Subscribers :
          events' = events \o
                      enqueue_webhook_events(
                        webhooks, IMPORT_COMPLETED, CompletedPayload(j, row),
                        fail, Run(j), jobs[j].status).units
     /\ inv' = [inv EXCEPT ![w].pc = "publish", ![w].job = row,
                           ![w].result = "returned"]
     /\ UNCHANGED <<products, nextId, storage, queue, deliveries, lock, faults,
                    reqs, issued, reader, touched, startProducts, webhooks,
                    redis, stream, runs,
                 upload, notified>>

\* lines 175-184: _update_job_status(COMPLETED), then the import.completed
\* event
Complete(w) ==
  LET j == inv[w].job_id
      job == inv[w].job
      new == StatusAssigned(job, COMPLETED, FALSE)
      row == FlushJob(jobs[j], job, new)
  IN /\ inv[w].pc = "complete"
     /\ RowFree(w, j)
     /\ jobs' = [jobs EXCEPT ![j] = row]
     /\ doneProducts' = [doneProducts EXCEPT ![j] = products]
     /\ \E fail \in SUBSET Subscribers :
          events' = events \o
                      enqueue_webhook_events(
                        webhooks, IMPORT_COMPLETED, CompletedPayload(j, row),
                        fail, Run(j), row.status).units
     /\ inv' = [inv EXCEPT ![w].pc = "publish", ![w].job = row,
                           ![w].result = "returned"]
     /\ UNCHANGED <<products, nextId, storage, queue, deliveries, lock, faults,
                    reqs, issued, reader, touched, startProducts, webhooks,
                    redis, stream, runs,
                 upload, notified>>

\* a handler that marks the job failed and returns instead of raising Retry
FaultWithoutRetry(w) ==
  LET j == inv[w].job_id
      job == inv[w].job
      message == IF inv[w].pc = "count" THEN MSG_COUNT_FAULT ELSE MSG_BATCH_FAULT
      failed == FailedAssigned(job, message)
      row == FlushJob(jobs[j], job, failed)
  IN /\ inv[w].pc \in {"count", "next_batch"}
     /\ faults < MaxFaults
     /\ RowFree(w, j)
     /\ faults' = faults + 1
     /\ jobs' = [jobs EXCEPT ![j] = row]
     /\ \E fail \in SUBSET Subscribers :
          events' = events \o
                      enqueue_webhook_events(
                        webhooks, IMPORT_FAILED, FailedPayload(j, message),
                        fail, Run(j), row.status).units
     /\ inv' = [inv EXCEPT ![w].pc = "publish", ![w].job = failed,
                           ![w].result = "returned"]
     /\ UNCHANGED <<products, nextId, storage, queue, deliveries, lock, reqs,
                    issued, reader, touched, startProducts, doneProducts,
                    webhooks, redis, stream, runs,
                 upload, notified>>
\* lines 97-100 and 168-171: an unexpected error while counting or while
\* fetching a batch: the commit and the event of _mark_failed with the fixed
\* message; Retry is raised when _mark_failed returns
Fault(w) ==
  LET j == inv[w].job_id
      job == inv[w].job
      message == IF inv[w].pc = "count" THEN MSG_COUNT_FAULT ELSE MSG_BATCH_FAULT
      failed == FailedAssigned(job, message)
      row == FlushJob(jobs[j], job, failed)
  IN /\ inv[w].pc \in {"count", "next_batch"}
     /\ faults < MaxFaults
     /\ RowFree(w, j)
     /\ faults' = faults + 1
     /\ jobs' = [jobs EXCEPT ![j] = row]
     /\ \E fail \in SUBSET Subscribers :
          events' = events \o
                      enqueue_webhook_events(
                        webhooks, IMPORT_FAILED, FailedPayload(j, message),
                        fail, Run(j), row.status).units
     /\ inv' = [inv EXCEPT ![w].pc = "publish", ![w].job = failed,
                           ![w].result = "retry"]
     /\ UNCHANGED <<products, nextId, storage, queue, deliveries, lock, reqs,
                    issued, reader, touched, startProducts, doneProducts,
                    webhooks, redis, stream, runs,
                 upload, notified>>

\* lines 102-104: the count pass succeeded and the commit of total_records
\* raises (the connection is lost); no handler encloses it, the exception
\* leaves _process_csv_import and the transaction is rolled back
CommitFault(w) ==
  LET j == inv[w].job_id
  IN /\ inv[w].pc = "count"
     /\ faults < MaxFaults
     /\ count_rows(storage[j].file, storage[j].exists).error = NoError
     /\ faults' = faults + 1
     /\ inv' = [inv EXCEPT ![w] = [IdleInv EXCEPT !.result = "raised"]]
     /\ runs' = Ended(j, "raised", jobs[j], storage[j].exists)
     /\ UNCHANGED <<products, nextId, jobs, storage, queue, deliveries, lock,
                    reqs, issued, reader, touched, startProducts, doneProducts,
                    webhooks, events, redis, stream,
                 upload, notified>>

\* lines 185-192, and 263-269 of _mark_failed with the cleanup of the
\* finally clause: the terminal status goes to the progress hash; a failed
\* invocation removes the staged file and returns or raises Retry, a
\* completed one sleeps
Publish(w) ==
  LET j == inv[w].job_id
      job == inv[w].job
      store == IF job.status = FAILED
               THEN CleanedUp(storage[j], job.file_path)
               ELSE storage[j]
  IN /\ inv[w].pc = "publish"
     /\ redis' = [redis EXCEPT ![j] =
                       update_progress(
                         @, IF job.status = COMPLETED
                            THEN Fields(COMPLETED, str(100),
                                        str(job.processed_records),
                                        str(OrZero(job.total_records)), "",
                                        Msg("Import completed successfully"))
                            ELSE Fields(FAILED, str(0), <<>>, <<>>, "",
                                        job.error_message))]
     /\ storage' = [storage EXCEPT ![j] = store]
     /\ IF job.status = COMPLETED
        THEN /\ inv' = [inv EXCEPT ![w].pc = "clear"]
             /\ UNCHANGED runs
        ELSE /\ inv' = [inv EXCEPT ![w] =
                          [IdleInv EXCEPT !.result = inv[w].result]]
             /\ runs' = Ended(j, inv[w].result, jobs[j], store.exists)
     /\ UNCHANGED <<products, nextId, jobs, queue, deliveries, lock, faults,
                    reqs, issued, reader, touched, startProducts, doneProducts,
                    webhooks, events, stream,
                 upload, notified>>

\* lines 194-197: after the sleep, clear_progress; the invocation returns
Clear(w) ==
  LET j == inv[w].job_id
  IN /\ inv[w].pc = "clear"
     /\ redis' = [redis EXCEPT ![j] = clear_progress(@)]
     /\ inv' = [inv EXCEPT ![w] = [IdleInv EXCEPT !.result = inv[w].result]]
     /\ runs' = Ended(j, inv[w].result, jobs[j], storage[j].exists)
     /\ UNCHANGED <<products, nextId, jobs, storage, queue, deliveries, lock,
                    faults, reqs, issued, reader, touched, startProducts,
                    doneProducts, webhooks, events, stream,
                 upload, notified>>

(***************************************************************************)
(* progress_manager.py raises when Redis fails: update_progress and        *)
(* clear_progress have a finally clause and no handler, so the exception   *)
(* of hset or delete reaches the line of tasks.py that called them.        *)
(***************************************************************************)
\* line 77: clear_progress raises before anything is committed; the
\* exception leaves _process_csv_import and the session is rolled back
StoreFaultClear(w) ==
  LET j == inv[w].job_id
  IN /\ inv[w].pc = "loaded"
     /\ faults < MaxFaults
     /\ faults' = faults + 1
     /\ lock' = [lock EXCEPT ![j] = 0]
     /\ inv' = [inv EXCEPT ![w] = [IdleInv EXCEPT !.result = "raised"]]
     /\ runs' = Ended(j, "raised", jobs[j], storage[j].exists)
     /\ UNCHANGED <<products, nextId, jobs, storage, queue, deliveries, reqs,
                    issued, reader, touched, startProducts, doneProducts,
                    webhooks, events, redis, stream, upload, notified>>

\* lines 77-80: the hash is deleted and PROCESSING committed, then
\* update_progress raises outside every handler
StoreFaultEntry(w) ==
  LET j == inv[w].job_id
      new == StatusAssigned(inv[w].job, PROCESSING, TRUE)
      row == FlushJob(jobs[j], inv[w].job, new)
  IN /\ inv[w].pc = "loaded"
     /\ faults < MaxFaults
     /\ faults' = faults + 1
     /\ jobs' = [jobs EXCEPT ![j] = row]
     /\ lock' = [lock EXCEPT ![j] = 0]
     /\ redis' = [redis EXCEPT ![j] = clear_progress(@)]
     /\ inv' = [inv EXCEPT ![w] = [IdleInv EXCEPT !.result = "raised"]]
     /\ runs' = Ended(j, "raised", row, storage[j].exists)
     /\ UNCHANGED <<products, nextId, storage, queue, deliveries, reqs,
                    issued, reader, touched, startProducts, doneProducts,
                    webhooks, events, stream, upload, notified>>

\* lines 102-106: total_records is committed, then update_progress raises
\* outside every handler
StoreFaultCount(w) ==
  LET j == inv[w].job_id
      job == inv[w].job
      r == count_rows(storage[j].file, storage[j].exists)
      counted == [job EXCEPT !.total_records = r.total, !.processed_records = 0]
      row == FlushJob(jobs[j], job, counted)
  IN /\ inv[w].pc = "count"
     /\ faults < MaxFaults
     /\ RowFree(w, j)
     /\ r.error = NoError
     /\ faults' = faults + 1
     /\ jobs' = [jobs EXCEPT ![j] = row]
     /\ inv' = [inv EXCEPT ![w] = [IdleInv EXCEPT !.result = "raised"]]
     /\ runs' = Ended(j, "raised", row, storage[j].exists)
     /\ UNCHANGED <<products, nextId, storage, queue, deliveries, lock, reqs,
                    issued, reader, touched, startProducts, doneProducts,
                    webhooks, events, redis, stream, upload, notified>>

\* lines 127-173: the batch and its events are committed, update_progress of
\* line 157 raises inside the try; the handler of line 168 runs
\* _mark_failed, which commits FAILED, enqueues import.failed and calls
\* update_progress itself (line 263): it raises again, in place of Retry,
\* and the finally clause removes the file
StoreFaultBatch(w) ==
  LET j == inv[w].job_id
      job == inv[w].job
      u == _upsert_products(products, inv[w].batch, nextId)
      processed == job.processed_records + inv[w].raw_count
      new == [job EXCEPT !.processed_records = processed,
                         !.progress =
                           _calculate_progress(processed, job.total_records)]
      row == FlushJob(jobs[j], job, new)
      selected == {p \in u.table : p.sku_normalized \in BatchSkus(inv[w].batch)}
      failed == FailedAssigned(new, MSG_BATCH_FAULT)
      frow == FlushJob(row, new, failed)
  IN /\ inv[w].pc = "upsert"
     /\ faults < MaxFaults
     /\ RowFree(w, j)
     /\ faults' = faults + 1
     /\ products' = u.table
     /\ nextId' = u.nextId
     /\ touched' = [touched EXCEPT ![j] = @ \cup BatchSkus(inv[w].batch)]
     /\ jobs' = [jobs EXCEPT ![j] = frow]
     /\ \E order \in Orders(selected) :
          events' = events
                      \o EnqueueProducts(webhooks, order, inv[w].existing_skus,
                                         {}, Run(j), row.status).units
                      \o enqueue_webhook_events(
                           webhooks, IMPORT_FAILED,
                           FailedPayload(j, MSG_BATCH_FAULT), {}, Run(j),
                           frow.status).units
     /\ storage' = [storage EXCEPT ![j] = CleanedUp(@, job.file_path)]
     /\ inv' = [inv EXCEPT ![w] = [IdleInv EXCEPT !.result = "raised"]]
     /\ runs' = Ended(j, "raised", frow, FALSE)
     /\ UNCHANGED <<queue, deliveries, lock, reqs, issued, reader,
                    startProducts, doneProducts, webhooks, redis, stream,
                    upload, notified>>

\* lines 185 and 263: the terminal status is committed and its event
\* enqueued, then update_progress raises.  After COMPLETED the exception
\* leaves before the try of the sleep, so the hash is not deleted; in
\* _mark_failed the _cleanup_file of line 269 is skipped, and the file is
\* removed only where the finally clause of the batch loop encloses the
\* call: after a bad row or an unexpected error of the loop
StoreFaultTerminal(w) ==
  LET j == inv[w].job_id
      job == inv[w].job
      in_loop == /\ job.status = FAILED
                 /\ job.error_message \in {MSG_ROW, MSG_BATCH_FAULT}
      store == IF in_loop THEN CleanedUp(storage[j], job.file_path)
               ELSE storage[j]
  IN /\ inv[w].pc = "publish"
     /\ faults < MaxFaults
     /\ faults' = faults + 1
     /\ storage' = [storage EXCEPT ![j] = store]
     /\ inv' = [inv EXCEPT ![w] = [IdleInv EXCEPT !.result = "raised"]]
     /\ runs' = Ended(j, "raised", jobs[j], store.exists)
     /\ UNCHANGED <<products, nextId, jobs, queue, deliveries, lock, reqs,
                    issued, reader, touched, startProducts, doneProducts,
                    webhooks, events, redis, stream, upload, notified>>

StoreFault(w) ==
  \/ StoreFaultClear(w)
  \/ StoreFaultEntry(w)
  \/ StoreFaultCount(w)
  \/ StoreFaultBatch(w)
  \/ StoreFaultTerminal(w)

Step(w) ==
  \/ \E j \in JobIds : Load(w, j)
  \/ EnterProcessing(w)
  \/ Count(w)
  \/ NextBatch(w)
  \/ Upsert(w)
  \/ Complete(w)
  \/ Publish(w)
  \/ Clear(w)

(***************************************************************************)
(* tasks.py: dispatch_webhook, the actor that delivers one unit.           *)
(***************************************************************************)
\* outcomes of the POST of line 209
PostOutcomes == {"ok", "status>=400", "transport error"}

\* the Retries middleware with a limit that is never reached
AfterAttemptUnbounded(unit, outcome) ==
  IF outcome = "ok"
  THEN [unit EXCEPT !.state = "delivered", !.posts = @ + 1]
  ELSE [unit EXCEPT !.retries = @ + 1, !.posts = @ + 1]
\* a unit after one run of _dispatch_webhook, lines 200-224: a status >= 400
\* and a transport error raise Retry; the actor's max_retries bounds the
\* retries, after which the message is failed and dropped
AfterAttempt(unit, outcome) ==
  IF outcome = "ok"
  THEN [unit EXCEPT !.state = "delivered", !.posts = @ + 1]
  ELSE IF unit.retries >= WEBHOOK_MAX_RETRIES
  THEN [unit EXCEPT !.state = "dropped", !.posts = @ + 1]
  ELSE [unit EXCEPT !.retries = @ + 1, !.posts = @ + 1]

\* one attempt of the delivery of unit i
DispatchWebhook(i, outcome) ==
  /\ i \in 1..Len(events)
  /\ events[i].state = "queued"
  /\ events' = [events EXCEPT ![i] = AfterAttempt(@, outcome)]
  /\ UNCHANGED <<products, nextId, jobs, storage, queue, deliveries, lock,
                 inv, faults, reqs, issued, reader, touched, startProducts,
                 doneProducts, webhooks, redis, stream, runs,
                 upload, notified>>

(***************************************************************************)
(* api/progress.py: the progress stream of one job.                        *)
(***************************************************************************)
NoPayload ==
  [status |-> "", progress |-> 0, processed_records |-> 0,
   total_records |-> 0, error_message |-> NoError, processed |-> <<>>,
   total |-> <<>>, phase |-> "", message |-> NoError]

\* `opened` keeps the status the job had when the stream was opened
IdleStream ==
  [pc |-> "off", job_id |-> 0, job |-> AbsentJob, ticks |-> 0, yielded |-> 0,
   event |-> "none", payload |-> NoPayload, opened |-> "absent"]

\* a payload that takes the record counts from the hash when it has them
PayloadCountsFromHash(job, progress_data) ==
  [status |-> IF progress_data.status # "" THEN progress_data.status
              ELSE job.status,
   progress |-> IF ~progress_data.set THEN OrZero(job.progress)
                ELSE IF progress_data.progress # <<>>
                THEN int(progress_data.progress)
                ELSE OrZero(job.progress),
   processed_records |-> IF progress_data.processed # <<>>
                         THEN int(progress_data.processed)
                         ELSE OrZero(job.processed_records),
   total_records |-> IF progress_data.total # <<>>
                     THEN int(progress_data.total)
                     ELSE OrZero(job.total_records),
   error_message |-> job.error_message,
   processed |-> progress_data.processed,
   total |-> progress_data.total,
   phase |-> progress_data.phase,
   message |-> progress_data.message]
\* lines 40-62: the payload of a progress event.  It is seeded with the
\* fields of the job row (None read as 0), then payload.update lays the
\* fields of the hash over it under their own keys; the seed always holds
\* processed_records and total_records, so lines 54-57 never replace them;
\* with a hash present, progress is coerced with int(), 0 when that fails
Payload(job, progress_data) ==
  [status |-> IF progress_data.status # "" THEN progress_data.status
              ELSE job.status,
   progress |-> IF ~progress_data.set THEN OrZero(job.progress)
                ELSE IF progress_data.progress # <<>>
                THEN int(progress_data.progress)
                ELSE OrZero(job.progress),
   processed_records |-> OrZero(job.processed_records),
   total_records |-> OrZero(job.total_records),
   error_message |-> job.error_message,
   processed |-> progress_data.processed,
   total |-> progress_data.total,
   phase |-> progress_data.phase,
   message |-> progress_data.message]

\* a stream that ends on the status of its payload
StreamBreaksOnPayload(job, payload) == payload.status \in {COMPLETED, FAILED}
\* line 69: the stream ends on the status of the job row it fetched
StreamBreaks(job, payload) == job.status \in {COMPLETED, FAILED}

\* stream_progress, lines 20-25: 404 unless the job exists
StreamOpen(j) ==
  /\ stream.pc = "off"
  /\ jobs[j].status # "absent"
  /\ stream' = [IdleStream EXCEPT !.pc = "fetch", !.job_id = j,
                                  !.opened = jobs[j].status]
  /\ UNCHANGED <<products, nextId, jobs, storage, queue, deliveries, lock,
                 inv, faults, reqs, issued, reader, touched, startProducts,
                 doneProducts, webhooks, events, redis, runs,
                 upload, notified>>

\* line 30, one polling tick begins: job = _fetch_job(job_id)
StreamFetch ==
  /\ stream.pc = "fetch"
  /\ stream.ticks < MaxTicks
  /\ stream' = [stream EXCEPT !.pc = "emit", !.job = jobs[stream.job_id],
                              !.ticks = @ + 1]
  /\ UNCHANGED <<products, nextId, jobs, storage, queue, deliveries, lock,
                 inv, faults, reqs, issued, reader, touched, startProducts,
                 doneProducts, webhooks, events, redis, runs,
                 upload, notified>>

\* a disconnect that deletes the progress hash of the job
StreamAbandonDeletingHash ==
  /\ stream.pc \in {"fetch", "emit"}
  /\ stream' = [stream EXCEPT !.pc = "closed"]
  /\ redis' = [redis EXCEPT ![stream.job_id] = NoProgress]
  /\ UNCHANGED <<products, nextId, jobs, storage, queue, deliveries, lock,
                 inv, faults, reqs, issued, reader, touched, startProducts,
                 doneProducts, webhooks, events, runs, upload, notified>>
\* the subscriber disconnects: the generator of lines 28-72 is closed at the
\* await or the yield where it stands and runs no further statement
StreamAbandon ==
  /\ stream.pc \in {"fetch", "emit"}
  /\ stream' = [stream EXCEPT !.pc = "closed"]
  /\ UNCHANGED <<products, nextId, jobs, storage, queue, deliveries, lock,
                 inv, faults, reqs, issued, reader, touched, startProducts,
                 doneProducts, webhooks, events, redis, runs, upload, notified>>

\* lines 31-72: get_progress, the event of the tick, then the break or the
\* sleep
StreamEmit ==
  LET job == stream.job
      payload == Payload(job, redis[stream.job_id])
  IN /\ stream.pc = "emit"
     /\ stream' =
          IF job.status = "absent"
          THEN [stream EXCEPT !.pc = "ended", !.yielded = @ + 1,
                              !.event = "error", !.payload = NoPayload]
          ELSE [stream EXCEPT
                  !.pc = IF StreamBreaks(job, payload) THEN "ended" ELSE "fetch",
                  !.yielded = @ + 1, !.event = "progress",
                  !.payload = payload]
     /\ UNCHANGED <<products, nextId, jobs, storage, queue, deliveries, lock,
                    inv, faults, reqs, issued, reader, touched, startProducts,
                    doneProducts, webhooks, events, redis, runs,
                 upload, notified>>

(***************************************************************************)
(* Specifications.                                                         *)
(***************************************************************************)
\* the store with product rows `table` and job rows `rows`, and `waiting`
\* messages of process_csv_import in the broker for each job id
InitHashes(table, rows, waiting, hashes) ==
  /\ products = table
  /\ nextId = Cardinality(table) + 1
  /\ jobs = rows
  /\ storage = [j \in JobIds |-> [file |-> EmptyFile, exists |-> FALSE]]
  /\ queue = waiting
  /\ deliveries = waiting
  /\ lock = [j \in JobIds |-> 0]
  /\ inv = [w \in Workers |-> IdleInv]
  /\ faults = 0
  /\ reqs = [r \in Requests |-> IdleReq]
  /\ issued = 0
  /\ touched = [j \in JobIds |-> {}]
  \* startProducts, doneProducts: set when a job is loaded / completes
  /\ startProducts = [j \in JobIds |-> {}]
  /\ doneProducts = [j \in JobIds |-> {}]
  /\ events = <<>>
  /\ redis = hashes
  /\ stream = IdleStream
  /\ runs = [j \in JobIds |-> <<>>]
  /\ upload = IdleUpload
  /\ notified = NoCall

\* the store with job rows in place and no progress hash
InitRows(table, rows, waiting) ==
  InitHashes(table, rows, waiting, [j \in JobIds |-> NoProgress])

\* the store before any upload
InitStore(table) ==
  InitRows(table, [j \in JobIds |-> AbsentJob], [j \in JobIds |-> 0])

\* Concurrent workers, at-least-once delivery and unexpected faults.
Init == InitStore({OldA}) /\ reader = IdleReader /\ webhooks = {}

Next ==
  \/ \E j \in JobIds, f \in WorkerFiles : Upload(j, f)
  \/ \E j \in JobIds : Redeliver(j)
  \/ \E w \in Workers : Step(w)
  \/ \E w \in Workers : Fault(w)
  \/ \E w \in Workers : CommitFault(w)

Spec == Init /\ [][Next]_vars

\* One worker, every job id delivered once, no fault: runs follow one
\* another without interference.  The second upload stages the content of
\* the first again.
InitSeq ==
  /\ reader = IdleReader
  /\ webhooks = {}
  /\ \E table \in InitialTables : InitStore(table)

NextSeq ==
  \/ \E f \in JobFiles : Upload(1, f)
  \/ jobs[1].status # "absent" /\ Upload(2, storage[1].file)
  \/ Step(1)

SpecSeq == InitSeq /\ [][NextSeq]_vars

(***************************************************************************)
(* api/products.py.  A request reads in one step and commits in the next;  *)
(* other sessions commit in between.                                       *)
(***************************************************************************)
ApiSkus == {<<"a">>, <<" ", "B">>}
ApiName == <<"x">>

\* session.commit() of one Product object: the UPDATE carries the columns
\* whose value differs from what the session loaded
FlushProduct(row, old, new) ==
  ProductRow(row.id,
             IF new.name # old.name THEN new.name ELSE row.name,
             IF new.sku # old.sku THEN new.sku ELSE row.sku,
             IF new.sku_normalized # old.sku_normalized
               THEN new.sku_normalized ELSE row.sku_normalized,
             IF new.description # old.description
               THEN new.description ELSE row.description,
             IF new.active # old.active THEN new.active ELSE row.active)

\* Product._set_sku: the validator of attribute sku
SkuAssigned(product, value) ==
  [product EXCEPT !.sku = strip(value), !.sku_normalized = normalize_sku(value)]

\* uq_products_sku_normalized, checked when row `new` replaces `old`
UniqueHolds(table, old, new) ==
  \A p \in table \ old : p.sku_normalized # new.sku_normalized

\* the table after UPDATE products SET <changed columns> WHERE id = loaded.id;
\* unchanged when the row is gone or the unique constraint refuses it
Updated(table, loaded, assigned) ==
  LET hit == {p \in table : p.id = loaded.id}
      new == {FlushProduct(p, loaded, assigned) : p \in hit}
  IN IF hit # {} /\ \A n \in new : UniqueHolds(table, hit, n)
     THEN (table \ hit) \cup new
     ELSE table

\* what a product request leaves alone; with no subscriber in table webhooks
\* its enqueue_webhook_events returns at line 42
ReqUnchanged ==
  UNCHANGED <<jobs, storage, queue, deliveries, lock, inv, faults, reader,
              touched, startProducts, doneProducts, webhooks, events,
              redis, stream, runs,
                 upload, notified>>

\* create_product, lines 79-81: the lookup by normalized SKU
CreateBegin(r, sku) ==
  LET found == {p \in products : p.sku_normalized = normalize_sku(sku)}
  IN /\ reqs[r].pc = "idle"
     /\ issued < MaxRequests
     /\ issued' = issued + 1
     /\ reqs' = [reqs EXCEPT ![r] =
                   IF found = {}
                   THEN [IdleReq EXCEPT !.pc = "create", !.name = ApiName,
                                        !.sku = sku]
                   ELSE LET e == CHOOSE p \in found : TRUE
                        IN [IdleReq EXCEPT !.pc = "create", !.id = e.id,
                                           !.name = ApiName, !.sku = sku,
                                           !.loaded = e]]
     /\ UNCHANGED <<products, nextId>>
     /\ ReqUnchanged

\* create_product, lines 83-95: overwrite the row found, or insert a new one
CreateCommit(r) ==
  LET q == reqs[r]
      assigned == [SkuAssigned(q.loaded, q.sku) EXCEPT
                     !.name = q.name, !.description = NoneStr, !.active = TRUE]
      fresh == ProductRow(nextId, q.name, strip(q.sku), normalize_sku(q.sku),
                          NoneStr, TRUE)
  IN /\ q.pc = "create"
     /\ reqs' = [reqs EXCEPT ![r] = IdleReq]
     /\ IF q.id # 0
        THEN /\ products' = Updated(products, q.loaded, assigned)
             /\ UNCHANGED nextId
        ELSE IF UniqueHolds(products, {}, fresh)
        THEN /\ products' = products \cup {fresh}
             /\ nextId' = nextId + 1
        ELSE UNCHANGED <<products, nextId>>
     /\ UNCHANGED issued
     /\ ReqUnchanged

\* update_product, lines 112-127, with a payload that sets sku: 404 and 409
\* end the request
UpdateBegin(r, id, sku) ==
  LET found == {p \in products : p.id = id}
      conflict == \E p \in products :
                    p.sku_normalized = normalize_sku(sku) /\ p.id # id
  IN /\ reqs[r].pc = "idle"
     /\ issued < MaxRequests
     /\ issued' = issued + 1
     /\ reqs' = [reqs EXCEPT ![r] =
                   IF found = {} \/ conflict THEN IdleReq
                   ELSE [IdleReq EXCEPT !.pc = "update", !.id = id,
                                        !.sku = sku,
                                        !.loaded = CHOOSE p \in found : TRUE]]
     /\ UNCHANGED <<products, nextId>>
     /\ ReqUnchanged

\* update_product, lines 127-137
UpdateCommit(r) ==
  LET q == reqs[r]
  IN /\ q.pc = "update"
     /\ reqs' = [reqs EXCEPT ![r] = IdleReq]
     /\ products' = Updated(products, q.loaded, SkuAssigned(q.loaded, q.sku))
     /\ UNCHANGED <<nextId, issued>>
     /\ ReqUnchanged

\* delete_product
DeleteProduct(r, id) ==
  /\ reqs[r].pc = "idle"
  /\ issued < MaxRequests
  /\ issued' = issued + 1
  /\ products' = {p \in products : p.id # id}
  /\ UNCHANGED <<nextId, reqs>>
  /\ ReqUnchanged

\* the payload of bulk_delete.completed, lines 158-162
BulkDeletePayload(total_products) == [deleted |-> total_products]

\* bulk_delete_products, lines 149-153: the count of the table; a count of
\* 0 ends the request with {"deleted": 0}
BulkDeleteBegin(r) ==
  LET total_products == Cardinality(products)
  IN /\ reqs[r].pc = "idle"
     /\ issued < MaxRequests
     /\ issued' = issued + 1
     /\ reqs' = [reqs EXCEPT ![r] =
                   IF total_products = 0
                   THEN [IdleReq EXCEPT !.deleted = 0]
                   ELSE [IdleReq EXCEPT !.pc = "bulk",
                                        !.total_products = total_products]]
     /\ UNCHANGED <<products, nextId>>
     /\ ReqUnchanged

\* bulk_delete_products, lines 155-164: DELETE FROM products, the commit,
\* the bulk_delete.completed event and the count read before as the answer
BulkDeleteCommit(r) ==
  LET q == reqs[r]
  IN /\ q.pc = "bulk"
     /\ products' = {}
     /\ \E fail \in SUBSET Subscribers :
          events' = events \o
                      enqueue_webhook_events(
                        webhooks, BULK_DELETE_COMPLETED,
                        BulkDeletePayload(q.total_products), fail,
                        [job |-> 0, n |-> r], "").units
     /\ reqs' = [reqs EXCEPT ![r] = [IdleReq EXCEPT !.deleted = q.total_products]]
     /\ UNCHANGED <<nextId, issued, jobs, storage, queue, deliveries, lock,
                    inv, faults, reader, touched, startProducts, doneProducts,
                    webhooks, redis, stream, runs, upload, notified>>

\* bulk_delete_products
BulkDelete(r) == BulkDeleteBegin(r) \/ BulkDeleteCommit(r)

Api(r) ==
  \/ \E sku \in ApiSkus : CreateBegin(r, sku)
  \/ CreateCommit(r)
  \/ \E id \in 1..2, sku \in ApiSkus : UpdateBegin(r, id, sku)
  \/ UpdateCommit(r)
  \/ \E id \in 1..2 : DeleteProduct(r, id)
  \/ BulkDelete(r)

\* files of the specification with product requests
CatalogFiles == {File(GoodHeader, <<Rowa, Rowb>>)}

\* Product requests interleaved with two imports that one worker runs, each
\* job id delivered once.
InitCatalog == InitStore({OldA}) /\ reader = IdleReader /\ webhooks = {}

NextCatalog ==
  \/ \E j \in JobIds, f \in CatalogFiles : Upload(j, f)
  \/ Step(1)
  \/ \E r \in Requests : Api(r)

SpecCatalog == InitCatalog /\ [][NextCatalog]_vars

\* Product requests on their own, with subscribers of bulk_delete.completed.
BulkTables == {{}, {OldA}, {OldA, OldC}}

InitBulk ==
  /\ reader = IdleReader
  /\ webhooks = {Webhook(1, BULK_DELETE_COMPLETED, TRUE),
                 Webhook(2, BULK_DELETE_COMPLETED, FALSE)}
  /\ \E table \in BulkTables : InitStore(table)

NextBulk == \E r \in Requests : Api(r)

SpecBulk == InitBulk /\ [][NextBulk]_vars

\* The CSV reader on its own: a caller counts the rows of a file and then
\* drains iter_batches(file_path, batch_size).
MaxBatchSize == 3

InitBatches ==
  /\ InitStore({})
  /\ webhooks = {}
  /\ reader \in
       {[IdleReader EXCEPT !.file = f, !.exists = TRUE, !.batch_size = n,
                           !.state = "count"] :
          f \in ReaderFiles, n \in 1..MaxBatchSize}

\* total = count_rows(file_path)
ReaderCount ==
  LET r == count_rows(reader.file, reader.exists)
  IN /\ reader.state = "count"
     /\ reader' = IF r.error # NoError
                  THEN [reader EXCEPT !.state = "failed", !.error = r.error]
                  ELSE [reader EXCEPT !.state = "iterate", !.total = r.total]
     /\ UNCHANGED <<products, nextId, jobs, storage, queue, deliveries, lock,
                    inv, faults, reqs, issued, touched, startProducts,
                    doneProducts, webhooks, events, redis, stream, runs,
                 upload, notified>>

\* one next() on the iterator; a yielded batch is kept with the data rows
\* the generator consumed for it
ReaderNext ==
  LET r == iter_batches(reader.file, reader.exists, reader.started,
                        reader.pos, reader.batch_size)
  IN /\ reader.state = "iterate"
     /\ reader' =
          CASE r.kind = "batch" ->
                 [reader EXCEPT !.started = TRUE, !.pos = r.pos,
                                !.out = Append(@, [rows |-> r.rows,
                                                   raw |-> r.raw,
                                                   from |-> reader.pos,
                                                   to |-> r.pos - 1])]
            [] r.kind = "stop" ->
                 [reader EXCEPT !.started = TRUE, !.state = "done"]
            [] OTHER ->
                 [reader EXCEPT !.started = TRUE, !.state = "failed",
                                !.error = r.error]
     /\ UNCHANGED <<products, nextId, jobs, storage, queue, deliveries, lock,
                    inv, faults, reqs, issued, touched, startProducts,
                    doneProducts, webhooks, events, redis, stream, runs,
                 upload, notified>>

NextBatches == ReaderCount \/ ReaderNext

SpecBatches == InitBatches /\ [][NextBatches]_vars

\* One job, one worker, redelivery and unexpected faults: an invocation that
\* failed is followed by another of the same job id.
NextRetry ==
  \/ \E f \in SmallFiles : Upload(1, f)
  \/ Redeliver(1)
  \/ Step(1)
  \/ Fault(1)
  \/ CommitFault(1)

SpecRetry == Init /\ [][NextRetry]_vars

\* One job, one worker, redelivery, and Redis failing at a publish point.
NextStore ==
  \/ \E f \in SmallFiles : Upload(1, f)
  \/ Redeliver(1)
  \/ Step(1)
  \/ StoreFault(1)

SpecStore == Init /\ [][NextStore]_vars

\* tables of webhook subscribers
HookTables ==
  {{},
   {Webhook(1, PRODUCT_CREATED, TRUE), Webhook(2, PRODUCT_UPDATED, TRUE),
    Webhook(3, IMPORT_COMPLETED, TRUE), Webhook(4, IMPORT_FAILED, TRUE)},
   {Webhook(1, PRODUCT_CREATED, TRUE), Webhook(2, PRODUCT_CREATED, TRUE),
    Webhook(3, PRODUCT_UPDATED, FALSE), Webhook(4, IMPORT_FAILED, TRUE)}}

\* One job and one worker, with subscribers: every event is fanned out to
\* delivery units.  The job id may be delivered again.
InitHooks ==
  /\ reader = IdleReader
  /\ webhooks \in HookTables
  /\ \E table \in {{}, {OldA}} : InitStore(table)

NextHooks ==
  \/ \E f \in JobFiles : Upload(1, f)
  \/ Redeliver(1)
  \/ Step(1)

SpecHooks == InitHooks /\ [][NextHooks]_vars

\* the event types of WebhookEventType that the model names
EventTypes ==
  {PRODUCT_CREATED, PRODUCT_UPDATED, IMPORT_COMPLETED, IMPORT_FAILED,
   BULK_DELETE_COMPLETED}

\* the ids a caller may pass: None, no id, ids of rows and an id of no row
IdInputs == {NoIds} \cup {Ids(S) : S \in SUBSET {1, 3, 5}}

\* the payload of the notifications of the specification below
NotifyPayload == BulkDeletePayload(0)

\* one call of enqueue_webhook_events with the ids and the broker failures
\* given; `notified` keeps the arguments of the call
Notify(event_type, webhook_ids, fail) ==
  /\ notified.n < MaxNotified
  /\ notified' = [n |-> notified.n + 1, event_type |-> event_type,
                  webhook_ids |-> webhook_ids]
  /\ events' = events \o
                  enqueue_webhook_events_ids(
                    webhooks, event_type, NotifyPayload, webhook_ids, fail,
                    [job |-> 0, n |-> notified.n + 1], "").units
  /\ UNCHANGED <<products, nextId, jobs, storage, queue, deliveries, lock,
                 inv, faults, reqs, issued, reader, touched, startProducts,
                 doneProducts, webhooks, redis, stream, runs, upload>>

\* The webhook service alone: calls of enqueue_webhook_events over tables of
\* subscribers.
InitNotify ==
  /\ reader = IdleReader
  /\ webhooks \in HookTables
  /\ InitStore({})

NextNotify ==
  \E event_type \in EventTypes, webhook_ids \in IdInputs,
     fail \in {{}, {1}, {3}} :
    Notify(event_type, webhook_ids, fail)

SpecNotify == InitNotify /\ [][NextNotify]_vars

\* files of the specification with webhook deliveries
DeliveryFiles ==
  {File(GoodHeader, <<RowA, Rowb>>), File(GoodHeader, <<RowBlankName>>)}

\* The same, with the actor dispatch_webhook attempting the units in any
\* order while the import runs.
InitDelivery ==
  /\ reader = IdleReader
  /\ webhooks \in HookTables \ {{}}
  /\ \E table \in {{}, {OldA}} : InitStore(table)

NextDelivery ==
  \/ \E f \in DeliveryFiles : Upload(1, f)
  \/ Step(1)
  \/ \E i \in 1..Len(events), outcome \in PostOutcomes :
       DispatchWebhook(i, outcome)

SpecDelivery == InitDelivery /\ [][NextDelivery]_vars

\* requests of the upload specification: file names, and bodies of every size
\* up to two chunks past the cap
UploadNames ==
  {<<"a", ".", "c", "s", "v">>, <<"a", ".", "C", "S", "V">>,
   <<"a", ".", "t", "x", "t">>, <<"c", "s", "v">>}
UploadBodies == {File(GoodHeader, <<RowA, Rowb>>), File(GoodHeader, <<Rowa>>)}
UploadSizes == 0..(MAX_CSV_SIZE_MB * MB + 2 * CHUNK_SIZE)

\* Uploads served one after the other while one worker processes the jobs
\* enqueued.
NextUpload ==
  \/ \E filename \in UploadNames, body \in UploadBodies, size \in UploadSizes :
       UploadBegin(filename, body, size)
  \/ UploadChunk
  \/ UploadEnd
  \/ UploadCommit
  \/ UploadSend
  \/ Step(1)

SpecUpload == Init /\ [][NextUpload]_vars

\* job rows a progress stream may fetch: pending, processing before and
\* after the count and after a batch, completed, failed
PayloadJobs ==
  {JobRow(PENDING, 0, NoneInt, 0, TRUE, NoError),
   JobRow(PROCESSING, 0, NoneInt, 0, TRUE, NoError),
   JobRow(PROCESSING, 0, 3, 0, TRUE, NoError),
   JobRow(PROCESSING, 66, 3, 2, TRUE, NoError),
   JobRow(COMPLETED, 100, 3, 3, TRUE, NoError),
   JobRow(FAILED, 0, 3, 2, TRUE, MSG_ROW)}

\* the texts a hash may hold under progress: those the worker writes, and
\* two that are no number
ProgressTexts == {<<"0">>, <<"6", "6">>, <<"1", "0", "0">>, <<"x">>,
                  <<"6", ".", "5">>}

\* progress hashes a stream may read: none, the snapshots the worker writes
\* (at entry, after the count, at the end), and hashes of another client of
\* the key: with each progress text, and with processed alone
PayloadHashes ==
  {NoProgress,
   update_progress(NoProgress,
                   Fields(PROCESSING, <<"0">>, <<>>, <<>>, "counting",
                          Msg("Counting CSV rows"))),
   update_progress(NoProgress,
                   Fields(PROCESSING, <<"0">>, <<>>, <<"3">>, "importing",
                          Msg("Starting import"))),
   update_progress(NoProgress,
                   Fields(COMPLETED, <<"1", "0", "0">>, <<"3">>, <<"3">>,
                          "importing",
                          Msg("Import completed successfully"))),
   update_progress(NoProgress,
                   Fields(FAILED, <<"0">>, <<"2">>, <<"3">>, "importing",
                          MSG_ROW))}
    \cup {update_progress(NoProgress,
                          Fields(PROCESSING, t, <<"1">>, <<"2">>, "importing",
                                 Msg("Starting import"))) :
            t \in ProgressTexts}
    \cup {update_progress(NoProgress,
                          Fields("", <<>>, <<"1">>, <<>>, "", NoError))}

\* The progress stream alone, over a job row and a progress hash that stay
\* as they are.
InitPayload ==
  /\ reader = IdleReader
  /\ webhooks = {}
  /\ \E job \in PayloadJobs, hash \in PayloadHashes :
       InitHashes({}, [j \in JobIds |-> IF j = 1 THEN job ELSE AbsentJob],
                  [j \in JobIds |-> 0],
                  [j \in JobIds |-> IF j = 1 THEN hash ELSE NoProgress])

NextPayload ==
  \/ StreamOpen(1)
  \/ StreamFetch
  \/ StreamEmit

SpecPayload == InitPayload /\ [][NextPayload]_vars

\* a job row that has no file path (the column is nullable)
NoPathJob == JobRow(PENDING, 0, NoneInt, 0, FALSE, NoError)

StrayFiles == {File(GoodHeader, <<RowA>>), File(GoodHeader, <<RowBlankName>>)}

\* One worker; a message waits for job id 1, whose row has no file path or
\* does not exist, while job id 2 is uploaded and processed as usual.
InitStray ==
  /\ reader = IdleReader
  /\ webhooks \in HookTables
  /\ \E row \in {AbsentJob, NoPathJob} :
       InitRows({OldA}, [j \in JobIds |-> IF j = 1 THEN row ELSE AbsentJob],
                [j \in JobIds |-> IF j = 1 THEN 1 ELSE 0])

NextStray ==
  \/ \E f \in StrayFiles : Upload(2, f)
  \/ Redeliver(1)
  \/ Stray(1)
  \/ Step(1)

SpecStray == InitStray /\ [][NextStray]_vars

\* One job and one worker, with a client of the progress stream polling
\* while the job runs.
NextStream ==
  \/ \E f \in SmallFiles : Upload(1, f)
  \/ Step(1)
  \/ StreamOpen(1)
  \/ StreamFetch
  \/ StreamEmit

SpecStream == Init /\ [][NextStream]_vars

\* The same, with a subscriber that may disconnect at any tick.
NextAbandon ==
  \/ \E f \in SmallFiles : Upload(1, f)
  \/ Step(1)
  \/ StreamOpen(1)
  \/ StreamFetch
  \/ StreamEmit
  \/ StreamAbandon

SpecAbandon == Init /\ [][NextAbandon]_vars


(***************************************************************************)
(* Vocabulary of the properties.                                           *)
(***************************************************************************)
Exists(j) == jobs[j].status # "absent"
Terminal(j) == jobs[j].status \in {COMPLETED, FAILED}

\* the columns of a header that carry required column c, matched
\* case-insensitively after trimming
ColumnIdx(header, c) ==
  {i \in 1..Len(header) : lower(strip(header[i])) = c}

MissingColumns(header) ==
  {c \in {COL_NAME, COL_SKU, COL_DESCRIPTION} : ColumnIdx(header, c) = {}}

\* required headers present, every row with a non-empty name and sku
ValidCsv(file) ==
  /\ MissingColumns(file.header) = {}
  /\ \A r \in 1..Len(file.rows) :
       \A c \in {COL_NAME, COL_SKU} :
         \E i \in ColumnIdx(file.header, c) :
           i <= Len(file.rows[r]) /\ strip(file.rows[r][i]) # <<>>

\* the normalized SKU of data row i
RowSku(file, i) == RowRecord(file.header, file.rows[i]).sku_normalized

FileSkus(file) == {RowSku(file, i) : i \in 1..Len(file.rows)}

\* the last data row among `window` that has normalized SKU k
LastRow(file, window, k) ==
  CHOOSE i \in window :
    /\ RowSku(file, i) = k
    /\ \A m \in window : RowSku(file, m) = k => m <= i

\* a product row without its active flag
View(table) ==
  {[id |-> p.id, name |-> p.name, sku |-> p.sku,
    sku_normalized |-> p.sku_normalized, description |-> p.description] :
     p \in table}

(***************************************************************************)
(* C3.  Within one run of a job, the committed progress stays in 0..100    *)
(* and never decreases from one commit of the job row to the next,         *)
(* whatever the outcome.                                                   *)
(***************************************************************************)
C3_ProgressNeverDecreases ==
  [][\A j \in JobIds :
       jobs[j].status = PROCESSING =>
         /\ jobs'[j].progress \in 0..100
         /\ jobs'[j].progress >= jobs[j].progress]_vars

(***************************************************************************)
(* C4.  In every committed state of a job, progress = 100 exactly when     *)
(* the status is COMPLETED.                                                *)
(***************************************************************************)
C4_HundredIffCompleted ==
  \A j \in JobIds :
    Exists(j) => (jobs[j].progress = 100 <=> jobs[j].status = COMPLETED)

(***************************************************************************)
(* C5.  A single uninterrupted run over a valid CSV ends COMPLETED with    *)
(* processed_records = total_records = the number of data rows.            *)
(***************************************************************************)
C5_ValidFileCompletes ==
  \A j \in JobIds :
    (Terminal(j) /\ ValidCsv(storage[j].file)) =>
      /\ jobs[j].status = COMPLETED
      /\ jobs[j].processed_records = Len(storage[j].file.rows)
      /\ jobs[j].total_records = Len(storage[j].file.rows)

(***************************************************************************)
(* C6.  After a COMPLETED import the normalized SKUs the run upserted are  *)
(* exactly the distinct normalized SKUs of the file, and the product of    *)
(* each holds the name, sku and description of the last row of the file    *)
(* with that normalized SKU, in whichever batch window the rows fall.      *)
(***************************************************************************)
C6_LastRowOfFileWins ==
  \A j \in JobIds :
    jobs[j].status = COMPLETED =>
      LET file == storage[j].file
          all == 1..Len(file.rows)
      IN /\ touched[j] = FileSkus(file)
         /\ \A k \in FileSkus(file) :
              LET rec == RowRecord(file.header, file.rows[LastRow(file, all, k)])
                  hit == {p \in doneProducts[j] : p.sku_normalized = k}
              IN /\ Cardinality(hit) = 1
                 /\ \A p \in hit : /\ p.name = rec.name
                                   /\ p.sku = rec.sku
                                   /\ p.description = rec.description

\* a completed import of A, b | a: the stored product of sku "a" was updated
\* twice, in two batch windows, and carries the third row
C6_Witness ==
  \E j \in JobIds :
    /\ jobs[j].status = COMPLETED
    /\ storage[j].file = File(GoodHeader, <<RowA, Rowb, Rowa>>)
    /\ \E p \in doneProducts[j] :
         /\ p.id = OldA.id
         /\ p.sku_normalized = <<"a">>
         /\ p.name = <<"m">>
         /\ p.sku = <<"a">>
         /\ p.description = NoneStr

(***************************************************************************)
(* C7.  Two jobs with the same CSV content, run one after the other, leave *)
(* the same product rows: none added, each id kept, name, sku and          *)
(* description equal.                                                      *)
(***************************************************************************)
C7_ReimportIsIdempotent ==
  (/\ jobs[1].status = COMPLETED
   /\ jobs[2].status = COMPLETED
   /\ storage[1].file = storage[2].file) =>
     /\ View(doneProducts[1]) = View(doneProducts[2])
     /\ Cardinality(doneProducts[1]) = Cardinality(doneProducts[2])

\* both imports of a file that created one product and updated another
C7_Witness ==
  /\ jobs[1].status = COMPLETED
  /\ jobs[2].status = COMPLETED
  /\ storage[1].file = File(GoodHeader, <<RowA, Rowb, Rowa>>)
  /\ storage[2].file = storage[1].file
  /\ startProducts[1] # startProducts[2]
  /\ \E p \in products : p.sku_normalized = <<"b">> /\ p.id = 2
  /\ OldA \in startProducts[1] \cup startProducts[2]

(***************************************************************************)
(* C10.  A header that lacks a required column fails the count pass with   *)
(* the message naming the missing columns; the job ends FAILED with that   *)
(* message and the product table is untouched.                             *)
(***************************************************************************)
C10_MissingColumnFailsCount ==
  \A j \in JobIds :
    LET header == storage[j].file.header
    IN (Exists(j) /\ header # <<>> /\ MissingColumns(header) # {}) =>
         /\ jobs[j].status # COMPLETED
         /\ touched[j] = {}
         /\ \A w \in Workers :
              inv[w].job_id = j => inv[w].pc \in {"loaded", "count", "publish"}
         /\ jobs[j].status = FAILED =>
              /\ jobs[j].error_message.text = "CSV missing required columns: "
              /\ jobs[j].error_message.columns =
                   SelectSeqIn(REQUIRED_COLUMNS, MissingColumns(header))
              /\ products = startProducts[j]

\* "Name," failed: sku and description are named, name is not
C10_Witness ==
  \E j \in JobIds :
    /\ jobs[j].status = FAILED
    /\ storage[j].file.header = NameOnlyHeader
    /\ jobs[j].error_message.columns = <<COL_SKU, COL_DESCRIPTION>>
    /\ OldA \in products

(***************************************************************************)
(* C9.  Within one yielded batch no two records share a normalized SKU;    *)
(* the record kept for a normalized SKU carries the trimmed name, the      *)
(* trimmed raw sku and the description of the last raw row of the batch    *)
(* window with that normalized SKU, an empty description being absent.     *)
(***************************************************************************)
\* the text of column `key` in data row i, None and missing read as empty
RawText(file, i, key) == OrEmpty(RowGet(file.header, file.rows[i], key))

C9_LastRowOfWindowWins ==
  \A b \in 1..Len(reader.out) :
    LET o == reader.out[b]
        file == reader.file
        window == o.from..o.to
    IN /\ o.raw = o.to - o.from + 1
       /\ \A x, y \in 1..Len(o.rows) :
            x # y => o.rows[x].sku_normalized # o.rows[y].sku_normalized
       /\ {o.rows[x].sku_normalized : x \in 1..Len(o.rows)} =
            {lower(strip(RawText(file, i, COL_SKU))) : i \in window}
       /\ \A x \in 1..Len(o.rows) :
            LET same == {i \in window :
                           lower(strip(RawText(file, i, COL_SKU))) =
                             o.rows[x].sku_normalized}
                last == CHOOSE i \in same : \A m \in same : m <= i
                text == strip(RawText(file, last, COL_DESCRIPTION))
            IN /\ o.rows[x].name = strip(RawText(file, last, COL_NAME))
               /\ o.rows[x].sku = strip(RawText(file, last, COL_SKU))
               /\ o.rows[x].description = IF text = <<>> THEN NoneStr ELSE text
               /\ o.rows[x].active

\* rows A/"n", then "a "/"m" with an empty description, in one window: one
\* record, with name "m", sku "a", no description
C9_Witness ==
  \E b \in 1..Len(reader.out) :
    LET o == reader.out[b]
    IN /\ o.to > o.from
       /\ reader.file.rows[o.from] = RowA
       /\ reader.file.rows[o.from + 1] = Rowa
       /\ \E x \in 1..Len(o.rows) :
            /\ o.rows[x].sku_normalized = <<"a">>
            /\ o.rows[x].name = <<"m">>
            /\ o.rows[x].sku = <<"a">>
            /\ o.rows[x].description = NoneStr

(***************************************************************************)
(* C1.  Over any sequence of invocations for a job id, redelivery and      *)
(* retries included, the status only moves forward along                   *)
(* PENDING -> PROCESSING -> {COMPLETED, FAILED}; a COMPLETED or FAILED     *)
(* status never changes again.                                             *)
(***************************************************************************)
Forward(from, to) ==
  \/ from = to
  \/ from = "absent" /\ to = PENDING
  \/ from = PENDING /\ to = PROCESSING
  \/ from = PROCESSING /\ to \in {COMPLETED, FAILED}

C1_StatusOnlyMovesForward ==
  [][\A j \in JobIds : Forward(jobs[j].status, jobs'[j].status)]_vars

(***************************************************************************)
(* C2.  Two invocations for the same job id are never both between their   *)
(* entry to PROCESSING and their terminal status write.                    *)
(***************************************************************************)
Processing(w) == inv[w].pc \in {"count", "next_batch", "upsert", "complete"}

C2_OneWorkerPerJob ==
  \A v, w \in Workers :
    (v # w /\ Processing(v) /\ Processing(w)) => inv[v].job_id # inv[w].job_id

(***************************************************************************)
(* C8.  Under any interleaving of product requests and imports, no two     *)
(* product rows share sku_normalized, and every row's sku_normalized is    *)
(* lowercase(trim(sku)).                                                   *)
(***************************************************************************)
C8_NormalizedSkuUniqueAndDerived ==
  /\ \A p, q \in products : p.sku_normalized = q.sku_normalized => p = q
  /\ \A p \in products : p.sku_normalized = lower(strip(p.sku))

(***************************************************************************)
(* C11.  When a row with an empty name or sku (after trimming) lies in the *)
(* first batch window of the file, the job ends FAILED with the message    *)
(* that names name and sku, and the product table is as it was before the  *)
(* job ran: no row of that window is committed, not even a valid row that  *)
(* precedes the bad one.                                                   *)
(***************************************************************************)
\* data row r has an empty name or an empty sku after trimming
BlankRow(file, r) ==
  \E c \in {COL_NAME, COL_SKU} :
    \A i \in ColumnIdx(file.header, c) :
      i > Len(file.rows[r]) \/ strip(file.rows[r][i]) = <<>>

\* the normalized SKU the text of data row i gives
RowKey(file, i) == lower(strip(RawText(file, i, COL_SKU)))

\* the rows of the first batch window: up to the row with which the window
\* holds BATCH_SIZE distinct normalized SKUs
FirstWindow(file) ==
  LET full == {n \in 1..Len(file.rows) :
                 Cardinality({RowKey(file, i) : i \in 1..n}) >= BATCH_SIZE}
  IN IF full = {} THEN 1..Len(file.rows)
     ELSE 1..(CHOOSE n \in full : \A m \in full : n <= m)

C11_BlankRowInFirstWindow ==
  \A j \in JobIds :
    LET file == storage[j].file
    IN (/\ Exists(j)
        /\ MissingColumns(file.header) = {}
        /\ \E r \in FirstWindow(file) : BlankRow(file, r)) =>
         /\ jobs[j].status # COMPLETED
         /\ touched[j] = {}
         /\ jobs[j].status = FAILED =>
              /\ jobs[j].error_message = MSG_ROW
              /\ jobs[j].processed_records = 0
              /\ products = startProducts[j]

\* n,A,d then a row with a blank name: the job failed and product "a" still
\* carries its old name
C11_Witness ==
  /\ jobs[1].status = FAILED
  /\ storage[1].file = File(GoodHeader, <<RowA, RowBlankName>>)
  /\ jobs[1].error_message = MSG_ROW
  /\ OldA \in products

(***************************************************************************)
(* C12.  A validation failure (missing file, bad header, empty name or     *)
(* sku), raised in the count phase or while a batch is read, ends the      *)
(* invocation with status FAILED and error_message equal to the            *)
(* validator's message, with one import.failed event per enabled           *)
(* subscriber of that type carrying the same message, and with no Retry    *)
(* raised to the dispatcher.                                               *)
(***************************************************************************)
\* the message of the first validation error a run over the staged file
\* meets; NoError when the file is valid
ValidatorMessage(file, exists) ==
  IF ~exists THEN MSG_NO_FILE
  ELSE IF file.header = <<>> THEN MSG_NO_HEADER
  ELSE IF MissingColumns(file.header) # {}
  THEN MsgMissing(SelectSeqIn(REQUIRED_COLUMNS, MissingColumns(file.header)))
  ELSE IF \E r \in 1..Len(file.rows) : BlankRow(file, r) THEN MSG_ROW
  ELSE NoError

\* the invocations of job j that committed FAILED: those that ended, and the
\* one that is about to publish its failure
FailedRuns(j) ==
  {n \in 1..Len(runs[j]) : runs[j][n].status = FAILED}
    \cup {n \in {Len(runs[j]) + 1} :
            \E w \in Workers : /\ inv[w].pc = "publish"
                               /\ inv[w].job_id = j
                               /\ inv[w].job.status = FAILED}

\* the message invocation n of job j left in the job row
RunMessage(j, n) ==
  IF n <= Len(runs[j]) THEN runs[j][n].error_message ELSE jobs[j].error_message

C12_ValidationFailureIsTerminal ==
  LET file == storage[1].file
  IN /\ \A n \in 1..Len(runs[1]) :
          LET expected == ValidatorMessage(file, n = 1)
          IN expected # NoError =>
               /\ runs[1][n].status = FAILED
               /\ runs[1][n].error_message = expected
               /\ runs[1][n].result = "returned"
     /\ \A n \in FailedRuns(1) :
          \A h \in fetch_enabled_webhooks(webhooks, IMPORT_FAILED) :
            LET sent == {i \in 1..Len(events) :
                           /\ events[i].event_type = IMPORT_FAILED
                           /\ events[i].webhook_id = h.id
                           /\ events[i].run = [job |-> 1, n |-> n]}
            IN /\ Cardinality(sent) = 1
               /\ \A i \in sent :
                    /\ events[i].payload.message = RunMessage(1, n)
                    /\ events[i].payload.job_id = 1

\* the first invocation failed on a blank name, the second on the missing
\* file; the subscriber of import.failed got one event for each, with the
\* two messages
C12_Witness ==
  /\ Len(runs[1]) = 2
  /\ runs[1][1].error_message = MSG_ROW
  /\ runs[1][2].error_message = MSG_NO_FILE
  /\ runs[1][2].result = "returned"
  /\ \E i, k \in 1..Len(events) :
       /\ i < k
       /\ events[i].event_type = IMPORT_FAILED
       /\ events[k].event_type = IMPORT_FAILED
       /\ events[i].payload.message = MSG_ROW
       /\ events[k].payload.message = MSG_NO_FILE

(***************************************************************************)
(* C13.  After an unexpected error marked the job FAILED and raised Retry, *)
(* the next invocation of the same job id runs the pipeline again from the *)
(* top over the same source file and, when the fault does not recur,       *)
(* reaches COMPLETED with processed_records = total_records.               *)
(***************************************************************************)
C13_RetryRunsFromTheTop ==
  \A j \in JobIds :
    \A n \in 2..Len(runs[j]) :
      (/\ ValidCsv(storage[j].file)
       /\ runs[j][n - 1].result = "retry"
       /\ runs[j][n].result = "returned") =>
         /\ runs[j][n].status = COMPLETED
         /\ (n = Len(runs[j]) /\ \A w \in Workers : inv[w].pc = "idle") =>
              jobs[j].processed_records = jobs[j].total_records

(***************************************************************************)
(* C14.  Whenever an invocation that found the job with a file path        *)
(* returns or raises (completed, validation failure in the count or batch  *)
(* phase, or unexpected error), the staged source file no longer exists.   *)
(***************************************************************************)
C14_SourceFileRemoved ==
  \A j \in JobIds : \A n \in 1..Len(runs[j]) : ~runs[j][n].file

CompletedRuns(j) ==
  {n \in 1..Len(runs[j]) : runs[j][n].status = COMPLETED}
    \cup {n \in {Len(runs[j]) + 1} :
            \E w \in Workers : /\ inv[w].pc \in {"publish", "clear"}
                               /\ inv[w].job_id = j
                               /\ inv[w].job.status = COMPLETED}

C16_OneCompletedEventLast ==
  \A n \in CompletedRuns(1) :
    LET of_run == {i \in 1..Len(events) : events[i].run = [job |-> 1, n |-> n]}
        completed == {i \in of_run : events[i].event_type = IMPORT_COMPLETED}
    IN /\ \A h \in webhooks :
            Cardinality({i \in completed : events[i].webhook_id = h.id}) =
              IF h.enabled /\ h.event_type = IMPORT_COMPLETED THEN 1 ELSE 0
       /\ \A i \in completed :
            /\ events[i].log_status = COMPLETED
            /\ events[i].payload.job_id = 1
            /\ events[i].payload.processed_records = Len(storage[1].file.rows)
            /\ events[i].payload.total_records = Len(storage[1].file.rows)
            /\ \A k \in of_run :
                 events[k].event_type \in {PRODUCT_CREATED, PRODUCT_UPDATED}
                   => k < i
       /\ \A i \in of_run : events[i].event_type # IMPORT_FAILED

\* a completed run of A, b | a with one subscriber per type: three product
\* events, then the import.completed event with 3 of 3 records
C16_Witness ==
  /\ Len(runs[1]) >= 1
  /\ runs[1][1].status = COMPLETED
  /\ Len(events) = 4
  /\ \A i \in 1..3 : events[i].event_type \in {PRODUCT_CREATED, PRODUCT_UPDATED}
  /\ events[4].event_type = IMPORT_COMPLETED
  /\ events[4].payload.processed_records = 3
  /\ events[4].payload.total_records = 3

C18_DeliveryLeavesImportAlone ==
  [][/\ \A i \in 1..Len(events) :
          events'[i].posts # events[i].posts =>
            /\ jobs' = jobs
            /\ products' = products
            /\ inv' = inv
            /\ \A k \in 1..Len(events') : k # i => events'[k] = events[k]
     /\ \A i \in (Len(events) + 1)..Len(events') :
          /\ events'[i].state \in {"queued", "lost"}
          /\ \A h \in fetch_enabled_webhooks(webhooks, events'[i].event_type) :
               \E k \in (Len(events) + 1)..Len(events') :
                 /\ events'[k].webhook_id = h.id
                 /\ events'[k].event_type = events'[i].event_type
                 /\ events'[k].payload = events'[i].payload
     /\ Len(runs'[1]) = 1 =>
          LET file == storage'[1].file
              expected == ValidatorMessage(file, TRUE)
          IN /\ runs'[1][1].result = "returned"
             /\ runs'[1][1].error_message = expected
             /\ jobs'[1].error_message = expected
             /\ expected = NoError =>
                  /\ runs'[1][1].status = COMPLETED
                  /\ jobs'[1].status = COMPLETED
                  /\ jobs'[1].processed_records = Len(file.rows)
                  /\ jobs'[1].total_records = Len(file.rows)
                  /\ jobs'[1].progress = 100
             /\ expected # NoError =>
                  /\ runs'[1][1].status = FAILED
                  /\ jobs'[1].status = FAILED
                  /\ jobs'[1].progress = 0]_vars

\* the import completed although, of two subscribers of one event, one
\* could not be enqueued and the other was delivered, and another unit was
\* dropped after its retries
C18_Witness ==
  /\ Len(runs[1]) = 1
  /\ runs[1][1].status = COMPLETED
  /\ \E i, k, m \in 1..Len(events) :
       /\ events[i].event_type = events[k].event_type
       /\ events[i].payload = events[k].payload
       /\ events[i].webhook_id # events[k].webhook_id
       /\ events[i].state = "lost"
       /\ events[k].state = "delivered"
       /\ events[m].state = "dropped"

(***************************************************************************)
(* C19.  The progress stream of an existing job emits exactly one progress *)
(* event per polling tick; it goes on to the next tick when the job row    *)
(* read in the tick is PENDING or PROCESSING and ends right after the      *)
(* event of the first tick whose job row is COMPLETED or FAILED, so a job  *)
(* already terminal when the stream is opened yields exactly one event.    *)
(***************************************************************************)
C19_OneEventPerTickUntilTerminal ==
  [][/\ (stream.pc = "fetch" /\ stream'.pc = "emit") =>
          /\ stream'.job = jobs[stream.job_id]
          /\ stream'.ticks = stream.ticks + 1
          /\ stream'.yielded = stream.ticks
     /\ (stream.pc = "emit" /\ stream'.pc # "emit") =>
          /\ stream'.event = "progress"
          /\ stream'.yielded = stream.yielded + 1
          /\ stream'.yielded = stream.ticks
          /\ stream'.pc = "ended" <=> stream.job.status \in {COMPLETED, FAILED}
          /\ stream'.pc = "fetch" <=> stream.job.status \in {PENDING, PROCESSING}
     /\ stream.pc = "ended" => stream' = stream
     /\ (stream'.pc = "ended" /\ stream'.opened \in {COMPLETED, FAILED}) =>
          stream'.yielded = 1]_vars

\* a stream opened on a pending job that ended on its third tick, and a
\* stream opened on a job already terminal that ended after one event
C19_Witness ==
  /\ stream.pc = "ended"
  /\ stream.opened = PENDING
  /\ stream.yielded = 3
  /\ stream.job.status = COMPLETED

C19_WitnessTerminal ==
  /\ stream.pc = "ended"
  /\ stream.opened = FAILED
  /\ stream.yielded = 1

(***************************************************************************)
(* C20.  When the progress stream runs while the worker processes the job, *)
(* the last event before the stream ends is a progress event whose payload *)
(* status is the terminal status of the job (completed or failed), with    *)
(* progress 100 when completed, however the reads of the stream interleave *)
(* with the commits and the publications of the worker.                    *)
(***************************************************************************)
C20_LastEventShowsTerminalStatus ==
  (stream.pc = "ended" /\ stream.opened \in {PENDING, PROCESSING}) =>
    /\ stream.event = "progress"
    /\ stream.payload.status = stream.job.status
    /\ stream.payload.status \in {COMPLETED, FAILED}
    /\ stream.payload.status = COMPLETED => stream.payload.progress = 100

(***************************************************************************)
(* C21.  An upload is rejected with 400 exactly when its file name does    *)
(* not end in .csv (case-insensitively), when no byte was received, or     *)
(* when the running byte count exceeds the cap; the count is checked for   *)
(* each chunk before the chunk is written.  A rejected upload creates no   *)
(* job row, enqueues no import task and leaves no staged file.             *)
(***************************************************************************)
SizeCap == MAX_CSV_SIZE_MB * MB

C21_RejectedUploadLeavesNothing ==
  [][upload' # upload =>
       /\ upload'.destination.bytes <= SizeCap
       /\ upload'.pc \in {"read", "commit"} =>
            /\ upload'.destination.exists
            /\ upload'.destination.bytes = upload'.written_bytes
       /\ upload'.pc = "done" =>
            (upload'.response = HTTP_400_BAD_REQUEST
               <=> \/ ~endswith(lower(upload'.filename), CSV_SUFFIX)
                   \/ upload'.size = 0
                   \/ upload'.size > SizeCap)
       /\ (upload'.pc = "done" /\ upload'.response = HTTP_400_BAD_REQUEST) =>
            /\ jobs' = jobs
            /\ storage' = storage
            /\ queue' = queue
            /\ deliveries' = deliveries
            /\ ~upload'.destination.exists
            /\ upload'.job_id = 0
            /\ upload'.written_bytes <= SizeCap + CHUNK_SIZE
       /\ (upload'.pc # "done" /\ upload'.pc # "send") => jobs' = jobs]_vars

\* a body two chunks longer than the cap is rejected by the first chunk that
\* passes the cap, with the rest unread and the destination removed
C21_Witness ==
  /\ upload.pc = "done"
  /\ upload.response = HTTP_400_BAD_REQUEST
  /\ upload.written_bytes > SizeCap
  /\ upload.read < upload.size
  /\ ~upload.destination.exists

(***************************************************************************)
(* C22.  An accepted upload creates exactly one job row, PENDING with      *)
(* progress 0, processed_records 0, no total_records and the path of the   *)
(* fully written staged file, and enqueues the job id exactly once, after  *)
(* the file is written and the row is committed: the worker that takes     *)
(* the id finds the row and the file.                                      *)
(***************************************************************************)
C22_AcceptedUploadEnqueuesOnceAfterCommit ==
  [][/\ (upload.pc = "commit" /\ upload'.pc = "send") =>
          LET j == upload'.job_id
          IN /\ j \in JobIds
             /\ jobs[j].status = "absent"
             /\ jobs'[j] = JobRow(PENDING, 0, NoneInt, 0, TRUE, NoError)
             /\ \A k \in JobIds \ {j} : jobs'[k] = jobs[k]
             /\ storage'[j].exists
             /\ storage'[j].file = upload.body
             /\ upload.destination.bytes = upload.size
             /\ deliveries'[j] = 0
     /\ (upload.pc = "send" /\ upload'.pc = "done") =>
          LET j == upload.job_id
          IN /\ upload'.response = HTTP_202_ACCEPTED
             /\ jobs[j].status = PENDING
             /\ deliveries'[j] = 1
             /\ queue'[j] = queue[j] + 1
             /\ \A k \in JobIds \ {j} : queue'[k] = queue[k]
     /\ (upload' # upload /\ upload.pc # "send") =>
          queue' = queue /\ deliveries' = deliveries
     /\ (upload' # upload /\ upload.pc # "commit") => jobs' = jobs
     /\ \A j \in JobIds :
          /\ deliveries'[j] <= 1
          /\ queue'[j] < queue[j] =>
               /\ jobs[j].status = PENDING
               /\ jobs[j].file_path
               /\ storage[j].exists
               /\ inv'[1].pc = "loaded"
               /\ inv'[1].job = jobs[j]]_vars

\* the upload was answered 202 and the worker has loaded its job
C22_Witness ==
  /\ upload.pc = "done"
  /\ upload.response = HTTP_202_ACCEPTED
  /\ inv[1].pc = "loaded"
  /\ inv[1].job_id = upload.job_id
  /\ storage[upload.job_id].file = upload.body

(***************************************************************************)
(* C23.  bulk_delete_products returns a deleted count equal to the number  *)
(* of products that existed and leaves the product table empty; with no    *)
(* product it returns 0, changes nothing and enqueues no                   *)
(* bulk_delete.completed event; with at least one product deleted it       *)
(* enqueues exactly one such event (per enabled subscriber) carrying the   *)
(* count.                                                                  *)
(***************************************************************************)
C23_BulkDeleteCountsWhatItDeletes ==
  [][\A r \in Requests :
       /\ (reqs[r].pc = "idle" /\ reqs'[r].pc = "idle"
             /\ reqs'[r].deleted # reqs[r].deleted
             /\ reqs'[r].deleted # NoneInt) =>
            /\ reqs'[r].deleted = 0
            /\ products = {}
            /\ products' = products
            /\ events' = events
       /\ (reqs[r].pc = "bulk" /\ reqs'[r].pc = "idle") =>
            LET existed == Cardinality(products)
                units == {i \in (Len(events) + 1)..Len(events') :
                            events'[i].event_type = BULK_DELETE_COMPLETED}
            IN /\ products' = {}
               /\ reqs'[r].deleted = existed
               /\ existed = 0 => units = {}
               /\ existed > 0 =>
                    /\ \A h \in webhooks :
                         Cardinality({i \in units :
                                        events'[i].webhook_id = h.id}) =
                           IF h.enabled /\ h.event_type = BULK_DELETE_COMPLETED
                           THEN 1 ELSE 0
                    /\ \A i \in units :
                         events'[i].payload.deleted = existed]_vars

(***************************************************************************)
(* C24.  iter_batches closes a batch window by the raw rows consumed, not  *)
(* by the unique keys collected: every yielded batch has a raw row count   *)
(* of at most batch_size, and every batch but the last a raw row count of  *)
(* exactly batch_size, duplicates of a normalized SKU inside a window      *)
(* included.                                                               *)
(***************************************************************************)
C24_WindowCountsRawRows ==
  \A b \in 1..Len(reader.out) :
    /\ reader.out[b].raw <= reader.batch_size
    /\ b < Len(reader.out) => reader.out[b].raw = reader.batch_size

C26_NoFilePathFailsAtOnce ==
  [][/\ (queue'[1] < queue[1] /\ jobs[1].status # "absent") =>
          LET units == {i \in (Len(events) + 1)..Len(events') :
                          events'[i].event_type = IMPORT_FAILED}
          IN /\ ~jobs[1].file_path
             /\ jobs'[1].status = FAILED
             /\ jobs'[1].error_message = MSG_NO_PATH
             /\ products' = products
             /\ inv'[1].result = "returned"
             /\ Len(events') - Len(events) = Cardinality(units)
             /\ \A h \in webhooks :
                  Cardinality({i \in units : events'[i].webhook_id = h.id}) =
                    IF h.enabled /\ h.event_type = IMPORT_FAILED THEN 1 ELSE 0
             /\ \A i \in units :
                  /\ events'[i].payload.message = MSG_NO_PATH
                  /\ events'[i].payload.job_id = 1
     /\ jobs'[1].status # PROCESSING
     /\ redis'[1].status # PROCESSING
     /\ touched'[1] = {}
     /\ \A n \in 1..Len(runs'[1]) :
          /\ runs'[1][n].result = "returned"
          /\ jobs'[1].status # "absent" =>
               /\ runs'[1][n].status = FAILED
               /\ runs'[1][n].error_message = MSG_NO_PATH]_vars

\* the job without a path was delivered twice and failed twice, with one
\* import.failed unit each time, while job 2 entered PROCESSING
C26_Witness ==
  /\ Len(runs[1]) = 2
  /\ jobs[1].status = FAILED
  /\ jobs[1].error_message = MSG_NO_PATH
  /\ Cardinality({i \in 1..Len(events) :
                    /\ events[i].event_type = IMPORT_FAILED
                    /\ events[i].payload.job_id = 1}) = 2
  /\ Len(runs[2]) = 1
  /\ runs[2][1].status = COMPLETED

(***************************************************************************)
(* C27.  An invocation for a job id that has no row returns without        *)
(* raising a retry signal and leaves every job row, every product, the     *)
(* progress hashes and the queue of webhook deliveries unchanged.          *)
(***************************************************************************)
C27_MissingJobIsIgnored ==
  [][(queue'[1] < queue[1] /\ jobs[1].status = "absent") =>
       /\ jobs' = jobs
       /\ products' = products
       /\ redis' = redis
       /\ events' = events
       /\ storage' = storage
       /\ lock' = lock
       /\ inv'[1].pc = "idle"
       /\ inv'[1].result = "returned"
       /\ runs'[1][Len(runs'[1])].result = "returned"]_vars

\* job 2 has completed, with events enqueued and products imported, and
\* the message for the missing job 1 was taken afterwards
C27_Witness ==
  /\ jobs[1].status = "absent"
  /\ Len(runs[1]) >= 1
  /\ runs[1][1].result = "returned"
  /\ jobs[2].status = COMPLETED
  /\ Len(events) > 0
  /\ queue[1] = 0

(***************************************************************************)
(* C28.  Whenever an invocation moves a job to PROCESSING, the committed   *)
(* job row has progress 0 and processed_records 0 whatever an earlier run  *)
(* left there, and the progress hash an earlier run left for the job id    *)
(* holds nothing but the first snapshot of the new run: none of the old    *)
(* fields (processed, total, the old message) is readable afterwards.      *)
(* (One worker: the runs of the job follow one another.)                   *)
(***************************************************************************)
C28_EntryResetsRowAndSnapshot ==
  [][(inv[1].pc = "loaded" /\ inv'[1].pc = "count") =>
       /\ jobs'[1].status = PROCESSING
       /\ jobs'[1].progress = 0
       /\ jobs'[1].processed_records = 0
       /\ redis'[1].set
       /\ redis'[1].status = PROCESSING
       /\ redis'[1].progress = <<"0">>
       /\ redis'[1].processed = <<>>
       /\ redis'[1].total = <<>>
       /\ redis'[1].phase = "counting"
       /\ redis'[1].message = Msg("Counting CSV rows")]_vars

\* a first run committed the batch (A, b), published processed and total, and
\* failed; the next run of the job has entered PROCESSING
C28_Witness ==
  /\ Len(runs[1]) >= 1
  /\ runs[1][1].error_message = MSG_BATCH_FAULT
  /\ \E p \in products : p.sku_normalized = <<"b">>
  /\ inv[1].pc = "count"
  /\ jobs[1].processed_records = 0
  /\ redis[1].processed = <<>>

(***************************************************************************)
(* C29.  enqueue_webhook_events hands exactly one delivery unit            *)
(* {event_type, payload, webhook_id, url} to the dispatcher per resolved   *)
(* subscriber.  The resolved set is: when ids are given, the enabled       *)
(* webhooks whose id is among them; otherwise the enabled webhooks of the  *)
(* event type.  A disabled webhook receives no unit, and an empty resolved *)
(* set enqueues nothing.                                                   *)
(***************************************************************************)
\* the resolved set as the claim states it
C29_Resolved(event_type, webhook_ids) ==
  IF webhook_ids.given
  THEN {h \in webhooks : h.enabled /\ h.id \in webhook_ids.ids}
  ELSE {h \in webhooks : h.enabled /\ h.event_type = event_type}

\* the units a step has added are one per subscriber of the set
C29_OnePerSubscriber(resolved, event_type) ==
  LET new == SubSeq(events', Len(events) + 1, Len(events'))
  IN /\ Len(new) = Cardinality(resolved)
     /\ \A h \in resolved :
          \E i \in 1..Len(new) :
            /\ new[i].webhook_id = h.id
            /\ new[i].url = h.url
            /\ new[i].event_type = event_type
            /\ new[i].payload = NotifyPayload
     /\ \A i \in 1..Len(new) :
          \E h \in webhooks : h.id = new[i].webhook_id /\ h.enabled

C29_OneUnitPerResolvedSubscriber ==
  [][notified' # notified =>
       C29_OnePerSubscriber(
         C29_Resolved(notified'.event_type, notified'.webhook_ids),
         notified'.event_type)]_vars

\* the same with an empty collection of ids read as no ids
C29_OneUnitPerSubscriberOfIds ==
  [][notified' # notified =>
       C29_OnePerSubscriber(
         C29_Resolved(notified'.event_type,
                      IF notified'.webhook_ids.ids = {} THEN NoIds
                      ELSE notified'.webhook_ids),
         notified'.event_type)]_vars

\* a call with ids of an enabled row, of a disabled row and of no row has
\* enqueued one unit, for the enabled row
C29_WitnessIds ==
  /\ notified.webhook_ids = Ids({1, 3, 5})
  /\ notified.n = 1
  /\ Len(events) = 1
  /\ events[1].webhook_id = 1
  /\ \E h \in webhooks : h.id = 3 /\ ~h.enabled

\* a call with an empty collection of ids has enqueued units
C29_WitnessEmptyIds ==
  /\ notified.webhook_ids = Ids({})
  /\ notified.n = 1
  /\ Len(events) > 0

(***************************************************************************)
(* C30.  The payload of a progress event is the fields of the job row      *)
(* overlaid by the progress hash: status, progress, phase and message take *)
(* the value of the hash when the hash has them, progress as an integer    *)
(* and 0 when its text is no number; processed_records and total_records   *)
(* are those of the job row (None as 0), whatever the hash holds under     *)
(* processed and total.                                                    *)
(***************************************************************************)
\* the integer each progress text of the hashes denotes
C30_Number(text) ==
  CASE text = <<"0">> -> 0
    [] text = <<"6", "6">> -> 66
    [] text = <<"1", "0", "0">> -> 100
    [] OTHER -> 0

C30_PayloadOverlaysHash ==
  stream.event = "progress" =>
    LET job == stream.job
        hash == redis[stream.job_id]
        payload == stream.payload
    IN /\ payload.status = IF hash.status # "" THEN hash.status
                           ELSE job.status
       /\ payload.progress = IF hash.progress # <<>>
                             THEN C30_Number(hash.progress)
                             ELSE job.progress
       /\ payload.phase = hash.phase
       /\ payload.message = hash.message
       /\ payload.processed_records = job.processed_records
       /\ payload.total_records =
            IF job.total_records = NoneInt THEN 0 ELSE job.total_records
       /\ payload.error_message = job.error_message

\* an event of a job with 2 of 3 records processed, read over a hash that
\* says 1 of 2 and holds a progress that is no number
C30_Witness ==
  /\ stream.event = "progress"
  /\ stream.job.processed_records = 2
  /\ redis[1].processed = <<"1">>
  /\ redis[1].progress = <<"x">>
  /\ stream.payload.processed_records = 2
  /\ stream.payload.total_records = 3
  /\ stream.payload.progress = 0

(***************************************************************************)
(* C31.  When an invocation ends with the job FAILED, the progress hash    *)
(* of the job is absent as soon as the invocation has ended; when it ends  *)
(* COMPLETED, the final snapshot (status completed, progress 100) is       *)
(* readable during the grace delay and absent once the invocation has      *)
(* returned.                                                               *)
(***************************************************************************)
C31_SnapshotGoneAfterTerminalRun ==
  [][/\ inv[1].pc = "clear" =>
          /\ redis[inv[1].job_id].set
          /\ redis[inv[1].job_id].status = COMPLETED
          /\ redis[inv[1].job_id].progress = <<"1", "0", "0">>
     /\ \A j \in JobIds :
          Len(runs'[j]) > Len(runs[j]) =>
            LET run == runs'[j][Len(runs'[j])]
            IN run.status \in {COMPLETED, FAILED} => ~redis'[j].set]_vars

\* the part of C31 about a run that ends COMPLETED
C31_SnapshotGoneAfterCompletedRun ==
  [][/\ inv[1].pc = "clear" =>
          /\ redis[inv[1].job_id].set
          /\ redis[inv[1].job_id].status = COMPLETED
          /\ redis[inv[1].job_id].progress = <<"1", "0", "0">>
     /\ \A j \in JobIds :
          Len(runs'[j]) > Len(runs[j]) =>
            LET run == runs'[j][Len(runs'[j])]
            IN run.status = COMPLETED => ~redis'[j].set]_vars

(***************************************************************************)
(* C32.  A failure of Redis during update_progress or clear_progress, at   *)
(* any publish point, does not change the outcome of the import: the       *)
(* invocation ends with the job in the terminal status it would have       *)
(* reached, no error of the import is recorded because of it, and the      *)
(* exception does not leave the invocation.  (No subscriber, no other      *)
(* fault: an invocation that ends has returned, and the only failures are  *)
(* those of the file.)                                                     *)
(***************************************************************************)
C32_PublishFailureKeepsOutcome ==
  [][\A j \in JobIds :
       Len(runs'[j]) > Len(runs[j]) =>
         LET run == runs'[j][Len(runs'[j])]
         IN /\ run.status \in {COMPLETED, FAILED}
            /\ run.result = "returned"
            /\ run.error_message # MSG_BATCH_FAULT]_vars

\* the same where Redis does not fail
C32_WithoutStoreFault ==
  [][\A j \in JobIds :
       (Len(runs'[j]) > Len(runs[j]) /\ faults' = faults) =>
         LET run == runs'[j][Len(runs'[j])]
         IN /\ run.status \in {COMPLETED, FAILED}
            /\ run.result = "returned"
            /\ run.error_message # MSG_BATCH_FAULT]_vars

(***************************************************************************)
(* C33.  The progress stream is read-only: opening, polling or abandoning  *)
(* a stream (the subscriber disconnects at any tick) leaves the job rows,  *)
(* the product rows, the progress hashes and the webhook queue as they     *)
(* are, and the run of the job ends as it does without a subscriber:       *)
(* COMPLETED with every row processed for a valid file, FAILED otherwise.   *)
(***************************************************************************)
C33_StreamIsReadOnly ==
  [][/\ stream' # stream =>
          /\ jobs' = jobs
          /\ products' = products
          /\ redis' = redis
          /\ events' = events
          /\ queue' = queue
          /\ storage' = storage
          /\ inv' = inv
          /\ lock' = lock
     /\ Len(runs'[1]) > Len(runs[1]) =>
          /\ runs'[1][1].result = "returned"
          /\ runs'[1][1].status =
               IF ValidCsv(storage[1].file) THEN COMPLETED ELSE FAILED
          /\ ValidCsv(storage[1].file) =>
               jobs'[1].processed_records = Len(storage[1].file.rows)]_vars

\* a subscriber that disconnected after two events while the job was being
\* processed, and the job completed afterwards
C33_Witness ==
  /\ stream.pc = "closed"
  /\ stream.yielded = 2
  /\ stream.job.status = PROCESSING
  /\ jobs[1].status = COMPLETED
  /\ Len(runs[1]) = 1

(***************************************************************************)
(* C34.  In every committed state of an import job, progress equals the    *)
(* value derived from the counters: min(100, floor(processed_records * 100 *)
(* / total_records)), and 0 when total_records is 0 or unset.              *)
(***************************************************************************)
C34_Derived(processed, total) ==
  IF total = NoneInt \/ total = 0 THEN 0
  ELSE IF (processed * 100) \div total > 100 THEN 100
  ELSE (processed * 100) \div total

C34_ProgressDerivedFromCounters ==
  \A j \in JobIds :
    jobs[j].status # "absent" =>
      jobs[j].progress =
        C34_Derived(jobs[j].processed_records, jobs[j].total_records)

\* the same while the job is PENDING or PROCESSING
C34_ProgressDerivedWhileRunning ==
  \A j \in JobIds :
    jobs[j].status \in {PENDING, PROCESSING} =>
      jobs[j].progress =
        C34_Derived(jobs[j].processed_records, jobs[j].total_records)

(***************************************************************************)
(* C35.  In every committed state of an import job, over any sequence of   *)
(* invocations of the job id, error_message is set only if the status is   *)
(* FAILED.                                                                 *)
(***************************************************************************)
C35_ErrorMessageOnlyWhenFailed ==
  \A j \in JobIds :
    jobs[j].error_message # NoError => jobs[j].status = FAILED

\* the same for the first invocation of each job id
C35_ErrorMessageOnlyWhenFailedOnce ==
  \A j \in JobIds :
    (jobs[j].error_message # NoError /\ runs[j] = <<>>) =>
      jobs[j].status = FAILED

(***************************************************************************)
(* C36.  Every invocation that finds the job row with a file path ends     *)
(* with the job in a terminal status, COMPLETED or FAILED: no fault of the *)
(* file or of Redis leaves the job PENDING or PROCESSING once the          *)
(* invocation has returned or raised.                                      *)
(***************************************************************************)
C36_InvocationEndsTerminal ==
  [][\A j \in JobIds :
       (Len(runs'[j]) > Len(runs[j]) /\ jobs[j].file_path) =>
         jobs'[j].status \in {COMPLETED, FAILED}]_vars

\* the same for the invocations in which Redis does not fail
C36_InvocationEndsTerminalStoreUp ==
  [][\A j \in JobIds :
       (Len(runs'[j]) > Len(runs[j]) /\ jobs[j].file_path
          /\ faults' = faults) =>
         jobs'[j].status \in {COMPLETED, FAILED}]_vars

(***************************************************************************)
(* C37.  When a row with an empty name or sku lies in a batch window after *)
(* the first, the job ends FAILED while the products of every earlier      *)
(* batch stay committed and their product events stay enqueued: at the     *)
(* failure processed_records is the raw row count of the batches committed *)
(* before the bad window, and the product table holds exactly the upserts  *)
(* of those batches.  (The first invocation of the job, no other writer of *)
(* the product table.)                                                     *)
(***************************************************************************)
RECURSIVE C37_CommittedRows(_, _)
\* the number of rows in the windows that close before the window of the
\* first blank row, for the windows that begin at row `from`
C37_CommittedRows(file, from) ==
  IF from > Len(file.rows) THEN Len(file.rows)
  ELSE LET full == {n \in from..Len(file.rows) :
                      Cardinality({RowKey(file, i) : i \in from..n})
                        >= BATCH_SIZE}
           to == IF full = {} THEN Len(file.rows)
                 ELSE CHOOSE n \in full : \A m \in full : n <= m
       IN IF \E r \in from..to : BlankRow(file, r) THEN from - 1
          ELSE C37_CommittedRows(file, to + 1)

\* the file of job 1 has its columns and a blank row after the first window
C37_BadRowAfterFirstWindow ==
  LET file == storage[1].file
  IN /\ MissingColumns(file.header) = {}
     /\ \E r \in 1..Len(file.rows) : BlankRow(file, r)
     /\ C37_CommittedRows(file, 1) > 0

C37_EarlierBatchesStayCommitted ==
  [][/\ (/\ runs[1] = <<>>
         /\ jobs[1].status = PROCESSING
         /\ jobs'[1].status # PROCESSING
         /\ C37_BadRowAfterFirstWindow) =>
          LET file == storage[1].file
              n == C37_CommittedRows(file, 1)
              keys == {RowKey(file, i) : i \in 1..n}
          IN /\ jobs'[1].status = FAILED
             /\ jobs'[1].error_message = MSG_ROW
             /\ jobs'[1].processed_records = n
             /\ products' = products
             /\ touched[1] = keys
             /\ \A k \in keys :
                  LET rec == RowRecord(file.header,
                                       file.rows[LastRow(file, 1..n, k)])
                      hit == {p \in products' : p.sku_normalized = k}
                  IN /\ Cardinality(hit) = 1
                     /\ \A p \in hit : /\ p.name = rec.name
                                       /\ p.sku = rec.sku
                                       /\ p.description = rec.description
             /\ {p \in products' : p.sku_normalized \notin keys} =
                  {p \in startProducts[1] : p.sku_normalized \notin keys}
             /\ SubSeq(events', 1, Len(events)) = events
             /\ \A k \in keys :
                  \A h \in webhooks :
                    (h.enabled /\ h.event_type =
                       (IF \E p \in startProducts[1] : p.sku_normalized = k
                        THEN PRODUCT_UPDATED ELSE PRODUCT_CREATED)) =>
                      \E i \in 1..Len(events) :
                        /\ events[i].webhook_id = h.id
                        /\ events[i].event_type = h.event_type
                        /\ events[i].payload.product.sku_normalized = k
     /\ (runs[1] = <<>> /\ runs'[1] # <<>> /\ C37_BadRowAfterFirstWindow) =>
          /\ runs'[1][1].status = FAILED
          /\ products' = products
          /\ SubSeq(events', 1, Len(events)) = events]_vars

\* A, b | blank: the job failed with 2 rows processed, products a and b are
\* in the table and the created event of b is enqueued
C37_Witness ==
  /\ storage[1].file = File(GoodHeader, <<RowA, Rowb, RowBlankName>>)
  /\ jobs[1].status = FAILED
  /\ jobs[1].error_message = MSG_ROW
  /\ jobs[1].processed_records = 2
  /\ \E p \in products : p.sku_normalized = <<"b">>
  /\ \E i \in 1..Len(events) :
       /\ events[i].event_type = PRODUCT_CREATED
       /\ events[i].payload.product.sku_normalized = <<"b">>

(***************************************************************************)
(* C38.  In every committed state of an import job whose total_records is  *)
(* set, 0 <= processed_records <= total_records, for any sequence of       *)
(* invocations of the job id over a file that is not modified between the  *)
(* count pass and the batch pass.                                          *)
(***************************************************************************)
C38_ProcessedWithinTotal ==
  \A j \in JobIds :
    (Exists(j) /\ jobs[j].total_records # NoneInt) =>
      /\ 0 <= jobs[j].processed_records
      /\ jobs[j].processed_records <= jobs[j].total_records

\* a completed run counted and processed 3 rows; the next invocation of the
\* job id has reset processed_records and failed on the removed file
C38_Witness ==
  /\ Len(runs[1]) = 2
  /\ runs[1][1].status = COMPLETED
  /\ jobs[1].status = FAILED
  /\ jobs[1].total_records = 3
  /\ jobs[1].processed_records = 0

(***************************************************************************)
(* Two import jobs whose files share a normalized SKU that the store does  *)
(* not hold, run by two workers at the same time, with one subscriber of   *)
(* product.created and one of product.updated.                             *)
(***************************************************************************)
\* the SKU the files share, normalized
SharedSku == <<"a">>

\* files that hold a row of the shared SKU
RaceFiles ==
  {File(GoodHeader, <<RowA>>), File(GoodHeader, <<Rowb, Rowa>>)}

RaceHooks ==
  {Webhook(1, PRODUCT_CREATED, TRUE), Webhook(2, PRODUCT_UPDATED, TRUE)}

InitRace ==
  /\ reader = IdleReader
  /\ webhooks = RaceHooks
  /\ InitStore({})

NextRace ==
  \/ \E j \in JobIds, f \in RaceFiles : Upload(j, f)
  \/ \E w \in Workers : Step(w)

SpecRace == InitRace /\ [][NextRace]_vars

\* both jobs were uploaded with the shared SKU and both invocations ended
C39_BothRunsEnded ==
  \A j \in JobIds : Len(runs[j]) = 1 /\ queue[j] = 0

\* the events of `event_type` enqueued for the shared SKU, across all jobs:
\* each event reaches the one subscriber of its type as one unit
C39_Events(event_type) ==
  {i \in DOMAIN events :
     /\ events[i].event_type = event_type
     /\ events[i].payload.product.sku_normalized = SharedSku}

\* C39, first part: two jobs that share a normalized SKU absent from the
\* store both end COMPLETED (no duplicate-key failure fails either of them)
C39_BothComplete ==
  C39_BothRunsEnded => \A j \in JobIds : jobs[j].status = COMPLETED

\* C39, second part: afterwards exactly one product row holds the shared SKU
C39_OneProductRow ==
  C39_BothRunsEnded =>
    Cardinality({p \in products : p.sku_normalized = SharedSku}) = 1

\* C39: for two import jobs running concurrently whose files share a
\* normalized SKU absent from the store, exactly one product.created event
\* is enqueued for that SKU across both jobs and the other job classifies it
\* as product.updated, under every interleaving of their existence queries
\* and upserts
C39_OneCreatedEvent ==
  C39_BothRunsEnded =>
    /\ Cardinality(C39_Events(PRODUCT_CREATED)) = 1
    /\ Cardinality(C39_Events(PRODUCT_UPDATED)) = 1

\* both jobs ran their existence query before either upsert was committed,
\* and both have ended
C39_BothClassifiedCreated ==
  /\ C39_BothRunsEnded
  /\ Cardinality(C39_Events(PRODUCT_CREATED)) = 2

=============================================================================
